---- MODULE Spec2Model ----
(***************************************************************************)
(* violet-dns: the RR-level DNS cache, the IP-rule matcher and the query   *)
(* router with its ecs-fallback strategy, as state machines.               *)
(*                                                                         *)
(* Names are sequences of labels as strings.Split(name, ".") yields them:  *)
(* "a.t" is <<"a","t">> and the fully qualified "a.t." is <<"a","t","">>.  *)
(* The clock counts ticks; TicksPerSecond ticks make one second, so that   *)
(* the truncation to whole seconds in RemainingTTL is visible.  Every      *)
(* instant of the model is a whole tick, on which the float64 score of the *)
(* Redis sorted set is exact.                                              *)
(***************************************************************************)
EXTENDS Integers, Sequences, FiniteSets, TLC

VARIABLES
    backend,      \* the DNSCacheV2 implementation: "memory" | "redis" | "redis_v2"
    store,        \* the cache storage: key -> sequence of entries
    now,          \* the wall clock, in ticks
    getRes,       \* cache specification: outcome of the GetRRs call that just returned
    walk,         \* cache specification: the ResolveCNAMEChain call in flight
    vIn,          \* validation specification: the inputs (Answer, expected_ips, databases)
    vOut,         \* validation specification: the result of validateIPs
    cfg,          \* router configuration: policies, fallback ruleset, databases
    category,     \* the category store: domain -> category tag
    rt,           \* the Route call in flight: its position and locals
    learn,        \* detached asyncCacheCategory tasks not yet run
    qlog,         \* upstream queries sent by the current Route call, in order
    wlog,         \* SetRRs calls made by the current Route call
    routes,       \* number of Route calls started
    gq,           \* upstream group specification: the Group.Query call in flight
    pipe,         \* pipeline specification: the SetRRs call in flight
    sel,          \* selection specification: the name classified and the policy found
    udp,          \* reply sizing specification: the ensureUDPSize call in flight
    load,         \* loader specification: the Loader run and the category data written
    vcfg,         \* configuration specification: the configuration validated and the verdict
    cresp,        \* reply caching specification: the cacheResponse call that just returned
    gcalls,       \* worker specification: the Group.Query calls in flight, each with its goroutines
    glog,         \* worker specification: the events written to the group's logger, in order
    srv,          \* listener specification: the handleQuery call that just returned
    flight,       \* single-flight specification: the two handlers and the call they share
    mem           \* lock specification: the GetRRs calls in flight on the in-process cache and the last SetRRs

cacheAux == <<getRes, walk, vIn, vOut, gq, pipe, sel, udp, load, vcfg, cresp, gcalls, glog, srv, flight, mem>>
routeVars == <<cfg, category, rt, learn, qlog, wlog, routes>>
vars ==
    <<backend, store, now, getRes, walk, vIn, vOut, cfg, category, rt, learn, qlog, wlog, routes,
      gq, pipe, sel, udp, load, vcfg, cresp, gcalls, glog, srv, flight, mem>>

(***************************************************************************)
(* Bounds                                                                  *)
(***************************************************************************)
TicksPerSecond == 2
MaxTime == 4
MaxTTL == 2
\* Route calls served in one behaviour.
MaxRoutes == 2
\* Nameservers of an upstream group.
MaxUpstreams == 2
\* Records in one section of a reply that is sized for UDP.
MaxRecords == 2
\* Categories listed under domain_group.
MaxGroups == 2

(***************************************************************************)
(* Names, record types, addresses                                          *)
(***************************************************************************)
NA == <<"a", "t", "">>
NB == <<"b", "t", "">>
NC == <<"c", "t", "">>
\* "B.t.": b.t. as a client that randomizes the case of its questions spells it.
NBU == <<"B", "t", "">>
FqdnNames == {NA, NB, NC, NBU}

TypeA == "A"
TypeAAAA == "AAAA"
TypeCNAME == "CNAME"

\* Addresses: one located in CN, one in US, one RFC1918, one unknown to the
\* country database.
IPs == {"ip_cn", "ip_us", "ip_priv", "ip_none"}

RcodeSuccess == 0
RcodeNameError == 3

\* A name ends with "." when its last label is the empty root label; the
\* empty string is <<"">>.
EndsWithDot(n) == Len(n) >= 2 /\ n[Len(n)] = ""

\* dns.Fqdn: append the root label unless the name already ends with it.
Fqdn(n) == IF EndsWithDot(n) THEN n ELSE Append(n, "")

\* strings.TrimSuffix(name, "."): drop one trailing root label.
TrimDot(n) == IF EndsWithDot(n) THEN SubSeq(n, 1, Len(n) - 1) ELSE n

RRec(n, t, d, ttl) == [name |-> n, type |-> t, data |-> d, ttl |-> ttl]

SetTTL(rr, ttl) == [rr EXCEPT !.ttl = ttl]

MkItem(rr, ttl, at, rcode) ==
    [rr |-> rr, origTTL |-> ttl, storedAt |-> at, rcode |-> rcode]

(***************************************************************************)
(* RRCacheItem                                                             *)
(***************************************************************************)
\* Go's int(float) conversion truncates toward zero.
TruncSeconds(ticks) ==
    IF ticks >= 0 THEN ticks \div TicksPerSecond
    ELSE -((-ticks) \div TicksPerSecond)

IsExpired(item, t) == (t - item.storedAt) >= item.origTTL * TicksPerSecond

RemainingTTL(item, t) ==
    LET elapsed == TruncSeconds(t - item.storedAt)
        remaining == item.origTTL - elapsed
    IN  IF remaining < 0 THEN 0 ELSE remaining

CacheKey(n, t) == <<Fqdn(n), t>>

Keys == {CacheKey(n, t) : n \in FqdnNames, t \in {TypeA, TypeCNAME}}

EmptyStore == [k \in Keys |-> <<>>]

RECURSIVE SeqMap(_, _)
SeqMap(Op(_), s) ==
    IF s = <<>> THEN <<>> ELSE <<Op(Head(s))>> \o SeqMap(Op, Tail(s))

\* Variant: the TTL is stored as received.
ClampTTLNever(ttl) == ttl

\* maxTTL is configured in whole seconds.
ClampTTL(ttl) == IF ttl > MaxTTL THEN MaxTTL ELSE ttl

(***************************************************************************)
(* MemoryDNSCacheV2                                                        *)
(***************************************************************************)
MemGetRRs(st, qname, qtype, t) ==
    LET key == CacheKey(qname, qtype)
        items == st[key]
        NotExpired(i) == ~IsExpired(i, t)
        validItems == SelectSeq(items, NotExpired)
    IN  IF items = <<>>
        THEN [items |-> <<>>, hit |-> FALSE, store |-> st]
        ELSE IF validItems = <<>>
        THEN [items |-> <<>>, hit |-> FALSE, store |-> [st EXCEPT ![key] = <<>>]]
        ELSE [items |-> validItems, hit |-> TRUE,
              store |-> [st EXCEPT ![key] = validItems]]

MemSetRRs(st, qname, qtype, items, t) ==
    LET key == CacheKey(qname, qtype)
        Stamp(i) == [i EXCEPT !.origTTL = ClampTTL(i.origTTL), !.storedAt = t]
    IN  IF items = <<>> THEN st
        ELSE [st EXCEPT ![key] = SeqMap(Stamp, items)]

(***************************************************************************)
(* RedisDNSCache: each key is a sorted set, score = expiry instant, member *)
(* = the JSON encoding of the item.                                        *)
(***************************************************************************)
RcodeToString(rc) ==
    IF rc = RcodeSuccess THEN "NOERROR"
    ELSE IF rc = RcodeNameError THEN "NXDOMAIN" ELSE ""

StringToRcode(s) ==
    IF s = "NOERROR" THEN RcodeSuccess
    ELSE IF s = "NXDOMAIN" THEN RcodeNameError ELSE -1

\* rr.String(): owner, TTL, class, type, rdata in presentation format.
RRString(rr) == <<rr.name, rr.ttl, "IN", rr.type, rr.data>>

\* dns.NewRR on a presentation-format record.
NewRR(s) == RRec(s[1], s[4], s[5], s[2])

encodeRRCacheItem(item) ==
    [rr |-> RRString(item.rr), type |-> item.rr.type, orig_ttl |-> item.origTTL,
     stored_at |-> item.storedAt, rcode |-> RcodeToString(item.rcode)]

DecodeOK(data) == StringToRcode(data.rcode) >= 0

decodeRRCacheItem(data) ==
    MkItem(NewRR(data.rr), data.orig_ttl, data.stored_at, StringToRcode(data.rcode))

\* ZADD: members are unique; the set is ordered by score, insertion order
\* standing in for the byte order of members with equal scores.
RECURSIVE ZInsert(_, _)
ZInsert(zs, m) ==
    IF zs = <<>> THEN <<m>>
    ELSE IF Head(zs).score <= m.score THEN <<Head(zs)>> \o ZInsert(Tail(zs), m)
    ELSE <<m>> \o zs

ZAdd(zs, m) ==
    LET Other(x) == x.member # m.member
    IN  ZInsert(SelectSeq(zs, Other), m)

\* time.Time.After: strictly later.
RedisMemberLive(m, t) == ~(t > m.score) /\ DecodeOK(m.member)

RedisGetRRs(st, qname, qtype, t) ==
    LET key == CacheKey(qname, qtype)
        members == st[key]
        Live(m) == RedisMemberLive(m, t)
        kept == SelectSeq(members, Live)
        Dec(m) == decodeRRCacheItem(m.member)
    IN  IF members = <<>>
        THEN [items |-> <<>>, hit |-> FALSE, store |-> st]
        ELSE IF kept = <<>>
        THEN [items |-> <<>>, hit |-> FALSE, store |-> [st EXCEPT ![key] = <<>>]]
        ELSE [items |-> SeqMap(Dec, kept), hit |-> TRUE,
              store |-> [st EXCEPT ![key] = kept]]

RECURSIVE RedisPipe(_, _, _)
RedisPipe(zs, items, t) ==
    IF items = <<>> THEN zs
    ELSE LET ttl == ClampTTL(Head(items).origTTL)
             item == [Head(items) EXCEPT !.origTTL = ttl, !.storedAt = t]
             m == [member |-> encodeRRCacheItem(item),
                   score |-> t + ttl * TicksPerSecond]
         IN  RedisPipe(ZAdd(zs, m), Tail(items), t)

RedisSetRRs(st, qname, qtype, items, t) ==
    LET key == CacheKey(qname, qtype)
    IN  IF items = <<>> THEN st
        ELSE [st EXCEPT ![key] = RedisPipe(<<>>, items, t)]

(***************************************************************************)
(* RedisDNSCacheV2: the same sorted sets with a binary member              *)
(* [version][OrigTTL][StoredAt][Rcode][Flags][RR in wire format]; SetRRs   *)
(* adds to the set without deleting the key first.                         *)
(***************************************************************************)
\* msg.Pack() of a message holding the record alone, header cut off:
\* owner, type, class, TTL, rdata.
packRR(rr) == <<rr.name, rr.type, "IN", rr.ttl, rr.data>>

unpackRR(data) == RRec(data[1], data[2], data[5], data[4])

encodeRRCacheItemV2(item) ==
    [version |-> 1, orig_ttl |-> item.origTTL, stored_at |-> item.storedAt,
     rcode |-> item.rcode, rr |-> packRR(item.rr)]

DecodeOKV2(data) == data.version = 1

decodeRRCacheItemV2(data) ==
    MkItem(unpackRR(data.rr), data.orig_ttl, data.stored_at, data.rcode)

RedisV2GetRRs(st, qname, qtype, t) ==
    LET key == CacheKey(qname, qtype)
        members == st[key]
        Live(m) == ~(t > m.score) /\ DecodeOKV2(m.member)
        kept == SelectSeq(members, Live)
        Dec(m) == decodeRRCacheItemV2(m.member)
    IN  IF members = <<>>
        THEN [items |-> <<>>, hit |-> FALSE, store |-> st]
        ELSE IF kept = <<>>
        THEN [items |-> <<>>, hit |-> FALSE, store |-> [st EXCEPT ![key] = <<>>]]
        ELSE [items |-> SeqMap(Dec, kept), hit |-> TRUE,
              store |-> [st EXCEPT ![key] = kept]]

RECURSIVE RedisV2Pipe(_, _, _)
RedisV2Pipe(zs, items, t) ==
    IF items = <<>> THEN zs
    ELSE LET ttl == ClampTTL(Head(items).origTTL)
             item == [Head(items) EXCEPT !.origTTL = ttl, !.storedAt = t]
             m == [member |-> encodeRRCacheItemV2(item),
                   score |-> t + ttl * TicksPerSecond]
         IN  RedisV2Pipe(ZAdd(zs, m), Tail(items), t)

RedisV2SetRRs(st, qname, qtype, items, t) ==
    LET key == CacheKey(qname, qtype)
    IN  IF items = <<>> THEN st
        ELSE [st EXCEPT ![key] = RedisV2Pipe(st[key], items, t)]

(***************************************************************************)
(* DNSCacheV2, dispatched on the backend                                   *)
(***************************************************************************)
Backends == {"memory", "redis"}

\* main.go builds a RedisDNSCacheV2 or a MemoryDNSCacheV2 for the router.
WiredBackends == {"memory", "redis_v2"}

GetRRs(be, st, qname, qtype, t) ==
    IF be = "memory" THEN MemGetRRs(st, qname, qtype, t)
    ELSE IF be = "redis" THEN RedisGetRRs(st, qname, qtype, t)
    ELSE RedisV2GetRRs(st, qname, qtype, t)

SetRRs(be, st, qname, qtype, items, t) ==
    IF be = "memory" THEN MemSetRRs(st, qname, qtype, items, t)
    ELSE IF be = "redis" THEN RedisSetRRs(st, qname, qtype, items, t)
    ELSE RedisV2SetRRs(st, qname, qtype, items, t)

DeleteRRs(st, qname, qtype) == [st EXCEPT ![CacheKey(qname, qtype)] = <<>>]

\* The items a key holds, whatever the representation of the backend.
StoredItems(be, st, key) ==
    LET Dec(m) == decodeRRCacheItem(m.member)
        DecV2(m) == decodeRRCacheItemV2(m.member)
    IN  IF be = "memory" THEN st[key]
        ELSE IF be = "redis" THEN SeqMap(Dec, st[key])
        ELSE SeqMap(DecV2, st[key])

(***************************************************************************)
(* SetRRs as the store sees it.  MemoryDNSCacheV2 assigns the stamped list *)
(* under its mutex.  The Redis caches queue DEL (RedisDNSCache only), one  *)
(* ZADD per item and EXPIRE on client.Pipeline() and send them with Exec:  *)
(* the server runs them one by one, and commands of other connections may  *)
(* run in between (nothing wraps them in MULTI/EXEC).                      *)
(***************************************************************************)
NoMember == [member |-> <<>>, score |-> 0]

PipeMember(be, item, t) ==
    LET ttl == ClampTTL(item.origTTL)
        it == [item EXCEPT !.origTTL = ttl, !.storedAt = t]
    IN  [member |-> IF be = "redis" THEN encodeRRCacheItem(it) ELSE encodeRRCacheItemV2(it),
         score |-> t + ttl * TicksPerSecond]

PipeCommands(be, items, t) ==
    LET Stamp(i) == [i EXCEPT !.origTTL = ClampTTL(i.origTTL), !.storedAt = t]
        ZAddOf(i) == [op |-> "ZADD", m |-> PipeMember(be, i, t), list |-> <<>>]
        Expire == [op |-> "EXPIRE", m |-> NoMember, list |-> <<>>]
    IN  IF be = "memory"
        THEN <<[op |-> "ASSIGN", m |-> NoMember, list |-> SeqMap(Stamp, items)]>>
        ELSE IF be = "redis"
        THEN <<[op |-> "DEL", m |-> NoMember, list |-> <<>>]>> \o SeqMap(ZAddOf, items)
                 \o <<Expire>>
        ELSE SeqMap(ZAddOf, items) \o <<Expire>>

\* What one command makes of the value under the key.  EXPIRE sets the
\* key's own expiry, an hour after the last member's: no instant of the
\* model reaches it.
ExecCommand(zs, c) ==
    IF c.op = "ASSIGN" THEN c.list
    ELSE IF c.op = "DEL" THEN <<>>
    ELSE IF c.op = "ZADD" THEN ZAdd(zs, c.m)
    ELSE zs

NoPipe ==
    [busy |-> FALSE, key |-> <<>>, items |-> <<>>, cmds |-> <<>>, pre |-> <<>>, post |-> <<>>]

(***************************************************************************)
(* geoip.Matcher: a rule is the list of the pieces of its text, the prefix *)
(* first: "geoip:!cn" is <<"geoip:", "!", "cn">>, "asn:4134" is            *)
(* <<"asn:", 4134>>.  db = [geo |-> loaded?, asn |-> loaded?].             *)
(***************************************************************************)
ToLower(s) ==
    IF s = "CN" THEN "cn" ELSE IF s = "US" THEN "us" ELSE IF s = "B" THEN "b" ELSE s

\* The country database: the ISO codes of an address, lower-cased.
lookupCode(ip, db) ==
    IF ~db.geo THEN <<>>
    ELSE IF ip = "ip_cn" THEN <<"cn">>
    ELSE IF ip = "ip_us" THEN <<"us">>
    ELSE <<>>

\* The ASN database: 0 when the address is unknown or no database is loaded.
lookupASN(ip, db) ==
    IF ~db.asn THEN 0
    ELSE IF ip = "ip_cn" THEN 4134
    ELSE IF ip = "ip_us" THEN 15169
    ELSE 0

isPrivateIP(ip) == ip = "ip_priv"

matchGeoIPPositive(ip, country, db) ==
    IF ~db.geo THEN FALSE
    ELSE \E i \in 1..Len(lookupCode(ip, db)) : lookupCode(ip, db)[i] = ToLower(country)

matchGeoIP(ip, country, db) ==
    IF Len(country) > 0 /\ country[1] = "!"
    THEN ~matchGeoIPPositive(ip, IF Len(country) > 1 THEN country[2] ELSE "", db)
    ELSE IF country = <<"private">> THEN isPrivateIP(ip)
    ELSE matchGeoIPPositive(ip, IF Len(country) > 0 THEN country[1] ELSE "", db)

matchASN(ip, asn, db) ==
    IF ~db.asn THEN FALSE ELSE lookupASN(ip, db) = asn

Match(ip, rule, db) ==
    IF Len(rule) > 0 /\ rule[1] = "geoip:" THEN matchGeoIP(ip, Tail(rule), db)
    ELSE IF Len(rule) > 1 /\ rule[1] = "asn:"
    THEN (IF rule[2] \in Nat THEN matchASN(ip, rule[2], db) ELSE FALSE)
    ELSE FALSE

\* Variant: a ruleset that every address matches.
MatchAnyAlways(ip, rules, db) == TRUE

RECURSIVE MatchAny(_, _, _)
MatchAny(ip, rules, db) ==
    IF rules = <<>> THEN FALSE
    ELSE IF Match(ip, Head(rules), db) THEN TRUE
    ELSE MatchAny(ip, Tail(rules), db)

(***************************************************************************)
(* utils.ExtractIPs and Router.validateIPs                                 *)
(***************************************************************************)
RECURSIVE ExtractIPs(_)
ExtractIPs(answers) ==
    IF answers = <<>> THEN <<>>
    ELSE IF Head(answers).type \in {TypeA, TypeAAAA}
    THEN <<Head(answers).data>> \o ExtractIPs(Tail(answers))
    ELSE ExtractIPs(Tail(answers))

RECURSIVE RuleLoop(_, _, _)
RuleLoop(ip, expectedIPs, db) ==
    IF expectedIPs = <<>> THEN FALSE
    ELSE IF Match(ip, Head(expectedIPs), db) THEN TRUE
    ELSE RuleLoop(ip, Tail(expectedIPs), db)

RECURSIVE IPLoop(_, _, _)
IPLoop(ips, expectedIPs, db) ==
    IF ips = <<>> THEN TRUE
    ELSE IF ~RuleLoop(Head(ips), expectedIPs, db) THEN FALSE
    ELSE IPLoop(Tail(ips), expectedIPs, db)

validateIPsAnyMatch(answer, expectedIPs, db) ==
    LET ips == ExtractIPs(answer)
    IN  IF Len(ips) = 0 THEN TRUE
        ELSE \E i \in 1..Len(ips) : RuleLoop(ips[i], expectedIPs, db)

validateIPs(answer, expectedIPs, db) ==
    LET ips == ExtractIPs(answer)
    IN  IF Len(ips) = 0 THEN TRUE ELSE IPLoop(ips, expectedIPs, db)

\* Variant: a failed validation always escalates, whatever fallback_group.
IPValidationBranchNoFallback(answer, options, db) ==
    IF validateIPs(answer, options.expected_ips, db) THEN "pass" ELSE "ecs_fallback"

\* The branch handleIPValidation takes on a merged reply.
IPValidationBranch(answer, options, db) ==
    IF validateIPs(answer, options.expected_ips, db) THEN "pass"
    ELSE IF options.fallback_group # "" THEN "fallback_group"
    ELSE "ecs_fallback"

(***************************************************************************)
(* Messages.  qid is not part of a dns.Msg: it names the upstream query    *)
(* (its index in qlog) whose reply the message carries, 0 for a message    *)
(* the router synthesized itself.                                          *)
(***************************************************************************)
NilMsg == [nil |-> TRUE, rcode |-> RcodeSuccess, answer |-> <<>>, qid |-> 0]

Msg(rcode, answer, qid) == [nil |-> FALSE, rcode |-> rcode, answer |-> answer, qid |-> qid]

(***************************************************************************)
(* cache.ResolveCNAMEChain.  The clock is read once before the loop (t0,   *)
(* used by RemainingTTL) and again inside every GetRRs (t, used to filter  *)
(* expired items).  items lists the cache items behind the answers.        *)
(***************************************************************************)
maxDepth == 10

StampRemaining(items, t0) ==
    LET St(item) == SetTTL(item.rr, RemainingTTL(item, t0))
    IN  SeqMap(St, items)

\* The loop over the CNAME items of one name: the target of the last CNAME
\* record becomes the current name.
RECURSIVE LastTarget(_, _)
\* Variant: the current name is never replaced by a CNAME target.
LastTargetKeepsCurrent(items, current) == current

LastTarget(items, current) ==
    IF items = <<>> THEN current
    ELSE LastTarget(Tail(items),
                    IF Head(items).rr.type = TypeCNAME
                    THEN Fqdn(Head(items).rr.data) ELSE current)

RECURSIVE ResolveLoop(_, _, _, _, _, _, _, _)
RECURSIVE ResolveLoopUnbounded(_, _, _, _, _, _, _, _)
\* Variant: the walk ignores maxDepth (it gives up far beyond it only).
ResolveLoopUnbounded(be, st, currentName, qtype, depth, acc, t0, t) ==
    LET g1 == GetRRs(be, st, currentName, qtype, t)
    IN  IF g1.hit
        THEN [answers |-> acc.answers \o StampRemaining(g1.items, t0),
              items |-> acc.items \o g1.items,
              needUpstream |-> FALSE, target |-> <<"">>, store |-> g1.store,
              iters |-> depth + 1]
        ELSE LET g2 == GetRRs(be, g1.store, currentName, TypeCNAME, t)
             IN  IF ~g2.hit \/ depth > 2 * maxDepth
                 THEN [answers |-> acc.answers, items |-> acc.items,
                       needUpstream |-> TRUE,
                       target |-> currentName, store |-> g2.store, iters |-> depth + 1]
                 ELSE ResolveLoopUnbounded(be, g2.store, LastTarget(g2.items, currentName),
                                           qtype, depth + 1,
                                           [answers |-> acc.answers \o StampRemaining(g2.items, t0),
                                            items |-> acc.items \o g2.items],
                                           t0, t)

\* iters counts the loop iterations entered.
ResolveLoop(be, st, currentName, qtype, depth, acc, t0, t) ==
    IF depth >= maxDepth
    THEN [answers |-> acc.answers, items |-> acc.items, needUpstream |-> TRUE,
          target |-> currentName, store |-> st, iters |-> depth]
    ELSE LET g1 == GetRRs(be, st, currentName, qtype, t)
         IN  IF g1.hit
             THEN [answers |-> acc.answers \o StampRemaining(g1.items, t0),
                   items |-> acc.items \o g1.items,
                   needUpstream |-> FALSE, target |-> <<"">>, store |-> g1.store,
                   iters |-> depth + 1]
             ELSE LET g2 == GetRRs(be, g1.store, currentName, TypeCNAME, t)
                  IN  IF ~g2.hit
                      THEN [answers |-> acc.answers, items |-> acc.items,
                            needUpstream |-> TRUE,
                            target |-> currentName, store |-> g2.store,
                            iters |-> depth + 1]
                      ELSE ResolveLoop(be, g2.store, LastTarget(g2.items, currentName),
                                       qtype, depth + 1,
                                       [answers |-> acc.answers \o StampRemaining(g2.items, t0),
                                        items |-> acc.items \o g2.items],
                                       t0, t)

ResolveCNAMEChain(be, st, qname, qtype, t0, t) ==
    ResolveLoop(be, st, Fqdn(qname), qtype, 0, [answers |-> <<>>, items |-> <<>>], t0, t)

(***************************************************************************)
(* Router.cacheResponse: group the Answer by (owner, type), one SetRRs per *)
(* group.                                                                  *)
(***************************************************************************)
AnswerKeys(answer) == {<<answer[i].name, answer[i].type>> : i \in 1..Len(answer)}

GroupItems(resp, key, rewriteTTL, t) ==
    LET OfKey(rr) == rr.name = key[1] /\ rr.type = key[2]
        It(rr) == MkItem(rr, IF rewriteTTL > 0 THEN rewriteTTL ELSE rr.ttl, t, resp.rcode)
    IN  SeqMap(It, SelectSeq(resp.answer, OfKey))

cacheResponse(be, st, resp, rewriteTTL, t) ==
    [k \in Keys |->
        IF \E key \in AnswerKeys(resp.answer) : CacheKey(key[1], key[2]) = k
        THEN LET key == CHOOSE key \in AnswerKeys(resp.answer) : CacheKey(key[1], key[2]) = k
             IN  SetRRs(be, st, key[1], key[2], GroupItems(resp, key, rewriteTTL, t), t)[k]
        ELSE st[k]]

\* The SetRRs calls cacheResponse makes, as recorded in wlog.
CacheWrites(resp, rewriteTTL, t) ==
    {[key |-> CacheKey(key[1], key[2]), items |-> GroupItems(resp, key, rewriteTTL, t),
      qid |-> resp.qid, at |-> t] : key \in AnswerKeys(resp.answer)}

(***************************************************************************)
(* Matcher.Match (domain classifier) and Router.findPolicy                 *)
(***************************************************************************)
CatGet(cat, d) == IF d \in DOMAIN cat THEN cat[d] ELSE ""

LowerName(n) == [i \in 1..Len(n) |-> ToLower(n[i])]

RECURSIVE ParentLoop(_, _, _)
ParentLoop(cat, parts, i) ==
    IF i >= Len(parts) THEN [group |-> "", matched |-> FALSE]
    ELSE LET parentDomain == SubSeq(parts, i + 1, Len(parts))
         IN  IF CatGet(cat, parentDomain) # ""
             THEN [group |-> CatGet(cat, parentDomain), matched |-> TRUE]
             ELSE ParentLoop(cat, parts, i + 1)

\* Variant: the name itself is probed, its parent suffixes are not.
MatcherMatchExact(cat, domain) ==
    LET d == LowerName(TrimDot(domain))
    IN  IF d = <<"">> THEN [group |-> "", matched |-> FALSE]
        ELSE IF CatGet(cat, d) # "" THEN [group |-> CatGet(cat, d), matched |-> TRUE]
        ELSE [group |-> "", matched |-> FALSE]

\* Matcher.Match
MatcherMatch(cat, domain) ==
    LET d == LowerName(TrimDot(domain))
    IN  IF d = <<"">> THEN [group |-> "", matched |-> FALSE]
        ELSE IF CatGet(cat, d) # "" THEN [group |-> CatGet(cat, d), matched |-> TRUE]
        ELSE ParentLoop(cat, d, 1)

NoOptions ==
    [expected_ips |-> <<>>, fallback_group |-> "", disable_cache |-> FALSE,
     block_type |-> "", rewrite_ttl |-> 0]

Policy(name, group, options) == [name |-> name, group |-> group, options |-> options]

DefaultPolicy == Policy("unknown", "proxy_ecs_fallback", NoOptions)

RECURSIVE findPolicy(_, _)
\* Variant: the last policy of that name is taken.
findPolicyLast(policies, groupName) ==
    LET named == {i \in 1..Len(policies) : policies[i].name = groupName}
    IN  IF named = {} THEN DefaultPolicy
        ELSE policies[CHOOSE i \in named : \A j \in named : j <= i]

\* Router.findPolicy
findPolicy(policies, groupName) ==
    IF policies = <<>> THEN DefaultPolicy
    ELSE IF Head(policies).name = groupName THEN Head(policies)
    ELSE findPolicy(Tail(policies), groupName)

(***************************************************************************)
(* Router.handleBlock and Router.mergeCNAMEChain                           *)
(***************************************************************************)
BlockTTL == 60

CreateBlockedResponse(domain, qtype) ==
    IF qtype = TypeA
    THEN Msg(RcodeSuccess, <<RRec(Fqdn(domain), TypeA, "0.0.0.0", BlockTTL)>>, 0)
    ELSE IF qtype = TypeAAAA
    THEN Msg(RcodeSuccess, <<RRec(Fqdn(domain), TypeAAAA, "::", BlockTTL)>>, 0)
    ELSE Msg(RcodeSuccess, <<>>, 0)

\* Variant: nxdomain answered as noerror.
handleBlockNoError(domain, qtype, blockType) ==
    IF blockType = "0.0.0.0" THEN CreateBlockedResponse(domain, qtype)
    ELSE Msg(RcodeSuccess, <<>>, 0)

handleBlock(domain, qtype, blockType) ==
    IF blockType = "nxdomain" THEN Msg(RcodeNameError, <<>>, 0)
    ELSE IF blockType = "noerror" THEN Msg(RcodeSuccess, <<>>, 0)
    ELSE IF blockType = "0.0.0.0" THEN CreateBlockedResponse(domain, qtype)
    ELSE Msg(RcodeNameError, <<>>, 0)

\* Variant: the cached chain is left out of the merged reply.
mergeCNAMEChainUpstreamOnly(cachedAnswers, upstreamResp) ==
    Msg(upstreamResp.rcode, upstreamResp.answer, upstreamResp.qid)

mergeCNAMEChain(cachedAnswers, upstreamResp) ==
    Msg(upstreamResp.rcode, cachedAnswers \o upstreamResp.answer, upstreamResp.qid)

(***************************************************************************)
(* upstream.Manager.Query: the groups and what a group may answer          *)
(***************************************************************************)
Groups == {"proxy", "proxy_ecs", "direct"}

NextName(n) == IF n = NA THEN NB ELSE IF n = NB THEN NC ELSE NA

UpErr == [err |-> TRUE, rcode |-> RcodeSuccess, answer |-> <<>>]

UpReply(rcode, answer) == [err |-> FALSE, rcode |-> rcode, answer |-> answer]

\* Group.Query returns a reply or an error, never both.  A reply for
\* (name, qtype) is NXDOMAIN, an address record, or a CNAME that outlives
\* the address of its target; proxy_ecs, which only the race queries,
\* answers with addresses (two of them in one of its replies).
UpOutcomes(group, name, qtype) ==
    IF group \notin Groups THEN {UpErr}
    ELSE LET n == Fqdn(name)
             Acn == RRec(n, qtype, "ip_cn", 1)
             Aus == RRec(n, qtype, "ip_us", MaxTTL + 1)
         IN  {UpErr, UpReply(RcodeNameError, <<>>),
              UpReply(RcodeSuccess, <<Acn>>), UpReply(RcodeSuccess, <<Aus>>)}
             \cup (IF group = "proxy_ecs"
                   THEN {UpReply(RcodeSuccess, <<Aus, Acn>>)}
                   ELSE {UpReply(RcodeSuccess, <<RRec(n, TypeCNAME, NextName(n), MaxTTL),
                                                 RRec(NextName(n), qtype, "ip_cn", 1)>>)})

(***************************************************************************)
(* Group.Query: one goroutine per nameserver calls Exchange, looks at       *)
(* queryCtx and sends its result on resChan (capacity len(g.upstreams));    *)
(* the caller's loop receives up to len(g.upstreams) results.  plan[w] is   *)
(* what Exchange on nameserver w returns for this call: a reply or an       *)
(* error, never both.  An error value is a tuple, <<>> for nil.  Every      *)
(* caller passes a context made from context.Background() by WithValue      *)
(* only, whose Done channel never delivers, so the loop's ctx.Done() case   *)
(* never runs.                                                              *)
(***************************************************************************)
ExchangeErr(w) == [resp |-> NilMsg, err |-> <<"exchange failed", w>>]

ExchangeReply(rcode, answer) == [resp |-> Msg(rcode, answer, 0), err |-> <<>>]

NoGroupQuery ==
    [pc |-> "idle", plan |-> <<>>, ws |-> <<>>, resChan |-> <<>>, i |-> 0,
     lastErr |-> <<>>, cancelled |-> FALSE, reply |-> NilMsg, err |-> <<>>, recv |-> <<>>]

\* Query up to the start of its loop: the goroutines are launched, or the
\* call fails at once when the group has no upstream.
GroupQueryEntry(plan) ==
    IF Len(plan) = 0
    THEN [NoGroupQuery EXCEPT !.pc = "done", !.err = <<"no upstream available">>]
    ELSE [NoGroupQuery EXCEPT !.pc = "wait", !.plan = plan,
                              !.ws = [w \in 1..Len(plan) |-> "exchange"]]

\* Variant: the goroutine sends its result whether or not queryCtx is
\* cancelled.
WorkerCheckAlwaysSends(g, w) ==
    [g EXCEPT !.ws[w] = "send"]

\* Goroutine w: Exchange has returned; select on queryCtx.Done() / default.
WorkerCheck(g, w) ==
    [g EXCEPT !.ws[w] = IF g.cancelled THEN "quit" ELSE "send"]

\* Goroutine w: resChan <- result{resp, err, nameserver}.
WorkerSend(g, w) ==
    [g EXCEPT !.ws[w] = "sent",
              !.resChan = Append(g.resChan, [resp |-> g.plan[w].resp, err |-> g.plan[w].err,
                                             nameserver |-> w])]

\* Variant: the reply returned is rebuilt with an empty Answer.
QuerySuccessEmpty(g, res) ==
    [g EXCEPT !.cancelled = TRUE, !.pc = "done",
              !.reply = Msg(res.resp.rcode, <<>>, 0), !.err = <<>>]

\* The loop received a result with err == nil and resp != nil: cancel(),
\* return res.resp, nil.
QuerySuccess(g, res) ==
    [g EXCEPT !.cancelled = TRUE, !.pc = "done", !.reply = res.resp, !.err = <<>>]

\* Variant: the first failure received ends the call.
QueryFailureFirst(g, res) ==
    [g EXCEPT !.lastErr = res.err, !.i = g.i + 1, !.cancelled = TRUE, !.pc = "done",
              !.err = <<"all nameservers failed", res.err>>]

\* The loop received any other result: lastErr = res.err, i++; after the
\* last iteration cancel() and the error that wraps lastErr.
QueryFailure(g, res) ==
    IF g.i + 1 >= Len(g.plan)
    THEN [g EXCEPT !.lastErr = res.err, !.i = g.i + 1, !.cancelled = TRUE, !.pc = "done",
                   !.err = <<"all nameservers failed", res.err>>]
    ELSE [g EXCEPT !.lastErr = res.err, !.i = g.i + 1]

\* select: case res := <-resChan.  recv records the results received.
QueryLoop(g) ==
    LET res == Head(g.resChan)
        g1 == [g EXCEPT !.resChan = Tail(g.resChan), !.recv = Append(g.recv, res)]
    IN  IF res.err = <<>> /\ ~res.resp.nil THEN QuerySuccess(g1, res)
        ELSE QueryFailure(g1, res)

(***************************************************************************)
(* Router.Route, as far as it goes without waiting for an upstream.  A     *)
(* bundle b = [rt, store, learn, qlog, wlog] is the part of the state a    *)
(* step of Route may change.                                               *)
(***************************************************************************)
RtIdle ==
    [pc |-> "idle", domain |-> <<"">>, qtype |-> TypeA, cachedAnswers |-> <<>>,
     targetName |-> <<"">>, policy |-> DefaultPolicy, ecsPolicy |-> DefaultPolicy,
     escalated |-> FALSE, ecsBase |-> 0, pending |-> {},
     i |-> 0, timedOut |-> FALSE, proxyECSResp |-> NilMsg, proxyResp |-> NilMsg,
     needUpstream |-> TRUE, primary |-> NilMsg, fallback |-> NilMsg, direct |-> NilMsg,
     reply |-> NilMsg, err |-> "", path |-> ""]

Query(group, name, qtype) == [group |-> group, name |-> name, qtype |-> qtype]

\* Route returns (reply, err); the goroutines of a race are left behind.
Return(b, reply, err, path) ==
    [b EXCEPT !.rt.pc = "done", !.rt.reply = reply, !.rt.err = err, !.rt.path = path,
              !.rt.pending = {}]

\* Variant: the primary group's reply is cached along with resp.
DoCacheWithPrimary(b, be, resp, t) ==
    LET st1 == cacheResponse(be, b.store, resp, 0, t)
    IN  [b EXCEPT !.store = IF b.rt.primary.nil THEN st1
                            ELSE cacheResponse(be, st1, b.rt.primary, 0, t),
                  !.wlog = b.wlog \cup CacheWrites(resp, 0, t)
                               \cup (IF b.rt.primary.nil THEN {}
                                     ELSE CacheWrites(b.rt.primary, 0, t))]

\* r.cacheResponse(ctx, domain, resp, 0) at instant t.
DoCache(b, be, resp, t) ==
    [b EXCEPT !.store = cacheResponse(be, b.store, resp, 0, t),
              !.wlog = b.wlog \cup CacheWrites(resp, 0, t)]

\* Step 10 of Route and its return.
CacheAndReturn(b, be, finalResp, t, path) ==
    IF ~b.rt.policy.options.disable_cache
    THEN Return(DoCache(b, be, finalResp, t), finalResp, "", path)
    ELSE Return(b, finalResp, "", path)

\* handleProxyECSFallbackV2 starts: both group queries are launched.
EcsBegin(b, policy, escalated) ==
    [b EXCEPT !.rt.pc = "ecs_wait", !.rt.ecsPolicy = policy, !.rt.escalated = escalated,
              !.rt.ecsBase = Len(b.qlog),
              !.rt.pending = {"proxy_ecs", "proxy"}, !.rt.i = 0, !.rt.timedOut = FALSE,
              !.rt.proxyECSResp = NilMsg, !.rt.proxyResp = NilMsg,
              !.qlog = b.qlog \o <<Query("proxy_ecs", b.rt.domain, b.rt.qtype),
                                   Query("proxy", b.rt.domain, b.rt.qtype)>>]

\* handleProxyECSFallbackV2 returns (resp, err) to its caller: to the client
\* of Route when the policy group is proxy_ecs_fallback, to step 9 of Route
\* when handleIPValidation escalated.
EcsReturn(b, be, resp, err, t, path) ==
    IF ~b.rt.escalated THEN Return(b, resp, err, path)
    ELSE IF err # "" THEN Return(b, NilMsg, err, path)
    ELSE CacheAndReturn(b, be, resp, t, path)

\* Variant: the chosen reply is returned without starting the learning task.
EcsUseNoLearn(b, be, resp, tag, t, path) ==
    LET c == IF ~b.rt.ecsPolicy.options.disable_cache THEN DoCache(b, be, resp, t) ELSE b
    IN  EcsReturn(c, be, resp, "", t, path)

\* The reply handleProxyECSFallbackV2 uses: cached unless the policy it was
\* called with disables caching, go asyncCacheCategory(domain, tag), return.
EcsUse(b, be, resp, tag, t, path) ==
    LET c == IF ~b.rt.ecsPolicy.options.disable_cache THEN DoCache(b, be, resp, t) ELSE b
        l == [c EXCEPT !.learn = c.learn \cup {[domain |-> b.rt.domain, category |-> tag]}]
    IN  EcsReturn(l, be, resp, "", t, path)

\* Variant: a proxy reply is used before the proxy_ecs signal is looked at.
EcsArbitrateProxyFirst(b, be, conf, t) ==
    LET r == b.rt
        ips == ExtractIPs(r.proxyECSResp.answer)
    IN  IF ~r.proxyResp.nil THEN EcsUse(b, be, r.proxyResp, "proxy_site", t, "ecs_proxy")
        ELSE IF ~r.proxyECSResp.nil /\ \E k \in 1..Len(ips) : MatchAny(ips[k], conf.rules, conf.db)
        THEN [b EXCEPT !.rt.pc = "direct",
                       !.qlog = b.qlog \o <<Query("direct", r.domain, r.qtype)>>]
        ELSE IF ~r.proxyECSResp.nil
        THEN EcsUse(b, be, r.proxyECSResp, "proxy_site", t, "ecs_proxy_ecs")
        ELSE EcsReturn(b, be, NilMsg, "all fallback queries failed", t, "ecs_failed")

\* handleProxyECSFallbackV2 after the wait loop.
EcsArbitrate(b, be, conf, t) ==
    LET r == b.rt
        ips == ExtractIPs(r.proxyECSResp.answer)
    IN  IF ~r.proxyECSResp.nil /\ \E k \in 1..Len(ips) : MatchAny(ips[k], conf.rules, conf.db)
        THEN [b EXCEPT !.rt.pc = "direct",
                       !.qlog = b.qlog \o <<Query("direct", r.domain, r.qtype)>>]
        ELSE IF ~r.proxyResp.nil THEN EcsUse(b, be, r.proxyResp, "proxy_site", t, "ecs_proxy")
        ELSE IF ~r.proxyECSResp.nil
        THEN EcsUse(b, be, r.proxyECSResp, "proxy_site", t, "ecs_proxy_ecs")
        ELSE EcsReturn(b, be, NilMsg, "all fallback queries failed", t, "ecs_failed")

\* Variant: one variable holds the result of both groups, so the result
\* received second replaces the one received first.
EcsStoreResultLastWins(r, g, resp) ==
    [r EXCEPT !.pending = r.pending \ {g}, !.i = r.i + 1,
              !.proxyECSResp = resp,
              !.proxyResp = resp]

\* case res := <-resChan: the result is kept in proxyECSResp or proxyResp
\* according to res.from, and the iteration ends.
EcsStoreResult(r, g, resp) ==
    [r EXCEPT !.pending = r.pending \ {g}, !.i = r.i + 1,
              !.proxyECSResp = IF g = "proxy_ecs" THEN resp ELSE r.proxyECSResp,
              !.proxyResp = IF g = "proxy_ecs" THEN r.proxyResp ELSE resp]

\* Variant: the wait loop ends only when both results have been received.
EcsLoopStepBothResults(b, be, conf, t) ==
    IF b.rt.pending = {} THEN EcsArbitrate(b, be, conf, t) ELSE b

\* One iteration of the wait loop has ended.
EcsLoopStep(b, be, conf, t) ==
    IF b.rt.i >= 2 THEN EcsArbitrate(b, be, conf, t) ELSE b

\* Variant: the synthesized reply keeps its empty Answer.
BuildResponseFromCacheEmpty(cachedAnswers) == Msg(RcodeSuccess, <<>>, 0)

\* msg := cache.BuildResponseFromCache(domain, qtype, nil); msg.Answer = cachedAnswers
BuildResponseFromCache(cachedAnswers) == Msg(RcodeSuccess, cachedAnswers, 0)

\* Route from its entry to its first upstream query (or to its return).
RouteEntry(b, be, conf, cat, domain, qtype, t) ==
    LET res == ResolveCNAMEChain(be, b.store, domain, qtype, t, t)
        targetName == IF Len(res.answers) > 0 THEN res.target ELSE domain
        m == MatcherMatch(cat, domain)
        groupName == IF m.matched THEN m.group ELSE "unknown"
        policy == findPolicy(conf.policies, groupName)
        b0 == [b EXCEPT !.store = res.store, !.qlog = <<>>, !.wlog = {},
                        !.rt = [RtIdle EXCEPT !.domain = domain, !.qtype = qtype,
                                              !.cachedAnswers = res.answers,
                                              !.targetName = targetName,
                                              !.policy = policy]]
    IN  IF ~res.needUpstream
        THEN Return([b0 EXCEPT !.rt.targetName = <<"">>, !.rt.policy = DefaultPolicy,
                               !.rt.needUpstream = FALSE],
                    BuildResponseFromCache(res.answers), "", "cache")
        ELSE IF policy.group = "block"
        THEN Return(b0, handleBlock(domain, qtype, policy.options.block_type), "", "block")
        ELSE IF policy.group = "proxy_ecs_fallback"
        THEN EcsBegin(b0, policy, FALSE)
        ELSE [b0 EXCEPT !.rt.pc = "primary",
                        !.qlog = <<Query(policy.group, targetName, qtype)>>]

\* Variant: a failed primary query is retried on the policy's fallback_group.
PrimaryFailedTriesFallback(b) ==
    IF b.rt.policy.options.fallback_group # ""
    THEN [b EXCEPT !.rt.pc = "fallback",
                   !.qlog = b.qlog \o <<Query(b.rt.policy.options.fallback_group,
                                              b.rt.targetName, b.rt.qtype)>>]
    ELSE Return(b, NilMsg, "upstream query failed", "primary_failed")

\* Route step 7 when upstreamMgr.Query returned an error: return nil, err.
PrimaryFailed(b) ==
    Return(b, NilMsg, "upstream query failed", "primary_failed")

\* Route after the primary group answered resp: steps 8 to 10.
AfterPrimary(b, be, conf, resp, t) ==
    LET r == b.rt
        finalResp == mergeCNAMEChain(r.cachedAnswers, resp)
        b1 == [b EXCEPT !.rt.primary = resp]
        branch == IF Len(r.policy.options.expected_ips) > 0
                  THEN IPValidationBranch(finalResp.answer, r.policy.options, conf.db)
                  ELSE "pass"
    IN  IF branch = "pass" THEN CacheAndReturn(b1, be, finalResp, t, "primary")
        ELSE IF branch = "fallback_group"
        THEN [b1 EXCEPT !.rt.pc = "fallback",
                        !.qlog = b.qlog \o <<Query(r.policy.options.fallback_group,
                                                   r.targetName, r.qtype)>>]
        ELSE EcsBegin(b1, DefaultPolicy, TRUE)

(***************************************************************************)
(* Cache specification: one cache, driven by arbitrary GetRRs / SetRRs /   *)
(* DeleteRRs / Clear calls while the clock advances.                       *)
(***************************************************************************)
\* TTLs an upstream record may carry: zero, one second, above the clamp.
InTTLs == {0, 1, MaxTTL + 1}

CacheNames == {NA}

CacheRRs(n, t) ==
    IF t = TypeA THEN {RRec(n, TypeA, ip, ttl) : ip \in {"ip_cn", "ip_us"}, ttl \in InTTLs}
    ELSE {RRec(n, TypeCNAME, NB, 1)}

\* The item lists a caller hands to SetRRs: one or two records of the key,
\* as grouped from one response.
CacheItemLists(n, t) ==
    LET It(rr) == MkItem(rr, rr.ttl, 0, RcodeSuccess)
    IN  {<<It(r)>> : r \in CacheRRs(n, t)} \cup
        {<<It(r1), It(r2)>> : r1 \in CacheRRs(n, t), r2 \in CacheRRs(n, t)}

NoGet == [key |-> <<>>, hit |-> FALSE, items |-> <<>>, at |-> 0, before |-> <<>>]

NoWalk == [pc |-> "idle", qname |-> <<"">>, now |-> 0, answers |-> <<>>, items |-> <<>>,
           needUpstream |-> FALSE, target |-> <<"">>, iters |-> 0]

\* A walk in flight stays in flight while other callers use the cache.
KeepWalk == IF walk.pc = "walk" THEN walk ELSE NoWalk

NoValidation == [answer |-> <<>>, rules |-> <<>>, fallback_group |-> "",
                 db |-> [geo |-> FALSE, asn |-> FALSE]]

NoVerdict == [done |-> FALSE, validated |-> FALSE, branch |-> ""]

NoCfg ==
    [policies |-> <<>>, rules |-> <<>>, db |-> [geo |-> FALSE, asn |-> FALSE], names |-> {}]

NoSel == [done |-> FALSE, domain |-> <<"">>, m |-> [group |-> "", matched |-> FALSE],
          policy |-> DefaultPolicy]

NoUDP ==
    [pc |-> "idle", isUDP |-> FALSE, maxSize |-> 0, truncated |-> FALSE, fixed |-> 0,
     answer |-> <<>>, ns |-> <<>>, extra |-> <<>>,
     sent |-> [answer |-> <<>>, ns |-> <<>>, extra |-> <<>>]]

NoLoad ==
    [done |-> FALSE, reverse |-> FALSE, config |-> <<>>, groupOrder |-> <<>>, data |-> <<>>]

NoValidate == [done |-> FALSE, outbounds |-> <<>>, groups |-> <<>>, err |-> ""]

NoCacheResp ==
    [calls |-> 0, pre |-> EmptyStore,
     resp |-> [nil |-> TRUE, rcode |-> RcodeSuccess, answer |-> <<>>, qid |-> 0,
               ns |-> <<>>, extra |-> <<>>]]

\* The Group.Query calls the worker specification runs side by side.
QueryCalls == {1, 2}

NoCalls == [c \in QueryCalls |-> NoGroupQuery]

NoLog == <<>>

NoServe ==
    [done |-> FALSE, served |-> 0, req |-> <<>>, routed |-> <<>>, size |-> 0, wrote |-> FALSE,
     written |-> <<>>]

\* The goroutines the listener runs handleQuery in, one per client; the
\* request of handler h carries the message ID h.
Handlers == {1, 2}

NoHandler == [pc |-> "idle", resp |-> 0, err |-> "", wrote |-> FALSE, written |-> <<>>]

\* running: a call for the key is in flight in the singleflight group; msgs:
\* the messages Route has returned, which the handlers hold by pointer.
NoFlight == [running |-> FALSE, msgs |-> <<>>, hs |-> [h \in Handlers |-> NoHandler]]

\* The goroutines calling GetRRs in the lock specification.
Getters == {1, 2}

NoGetter == [pc |-> "idle", seen |-> <<>>, fresh |-> FALSE, at |-> 0, hit |-> FALSE,
             items |-> <<>>]

NoMem == [gets |-> [g \in Getters |-> NoGetter], lastSet |-> <<>>]

RouterUnused ==
    /\ cfg = NoCfg
    /\ category = <<>>
    /\ rt = RtIdle
    /\ learn = {}
    /\ qlog = <<>>
    /\ wlog = {}
    /\ routes = 0

InitCache ==
    /\ RouterUnused
    /\ backend \in Backends
    /\ store = EmptyStore
    /\ now = 0
    /\ getRes = NoGet
    /\ walk = NoWalk
    /\ vIn = NoValidation
    /\ vOut = NoVerdict
    /\ gq = NoGroupQuery
    /\ pipe = NoPipe
    /\ sel = NoSel
    /\ udp = NoUDP
    /\ load = NoLoad
    /\ vcfg = NoValidate
    /\ cresp = NoCacheResp
    /\ gcalls = NoCalls
    /\ glog = NoLog
    /\ srv = NoServe
    /\ flight = NoFlight
    /\ mem = NoMem

CacheGet(n, t) ==
    LET r == GetRRs(backend, store, n, t, now)
    IN  /\ store' = r.store
        /\ getRes' = [key |-> CacheKey(n, t), hit |-> r.hit, items |-> r.items,
                      at |-> now,
                      before |-> StoredItems(backend, store, CacheKey(n, t))]
        /\ walk' = KeepWalk
        /\ UNCHANGED <<backend, now, vIn, vOut, gq, pipe, sel, udp, load, vcfg, cresp, gcalls, glog, srv, flight, mem, routeVars>>

CacheSet(n, t, items) ==
    /\ store' = SetRRs(backend, store, n, t, items, now)
    /\ getRes' = NoGet
    /\ walk' = KeepWalk
    /\ UNCHANGED <<backend, now, vIn, vOut, gq, pipe, sel, udp, load, vcfg, cresp, gcalls, glog, srv, flight, mem, routeVars>>

CacheDelete(n, t) ==
    /\ store[CacheKey(n, t)] # <<>>
    /\ store' = DeleteRRs(store, n, t)
    /\ getRes' = NoGet
    /\ walk' = KeepWalk
    /\ UNCHANGED <<backend, now, vIn, vOut, gq, pipe, sel, udp, load, vcfg, cresp, gcalls, glog, srv, flight, mem, routeVars>>

CacheClear ==
    /\ store # EmptyStore
    /\ store' = EmptyStore
    /\ getRes' = NoGet
    /\ walk' = KeepWalk
    /\ UNCHANGED <<backend, now, vIn, vOut, gq, pipe, sel, udp, load, vcfg, cresp, gcalls, glog, srv, flight, mem, routeVars>>

\* ResolveCNAMEChain reads the clock: now := time.Now().UTC().
ResolveBegin(n) ==
    /\ walk.pc # "walk"
    /\ walk' = [NoWalk EXCEPT !.pc = "walk", !.qname = n, !.now = now]
    /\ getRes' = NoGet
    /\ UNCHANGED <<backend, store, now, vIn, vOut, gq, pipe, sel, udp, load, vcfg, cresp, gcalls, glog, srv, flight, mem, routeVars>>

\* The loop of ResolveCNAMEChain, whose GetRRs calls read the clock again.
ResolveWalk ==
    /\ walk.pc = "walk"
    /\ LET res == ResolveCNAMEChain(backend, store, walk.qname, TypeA, walk.now, now)
       IN  /\ store' = res.store
           /\ walk' = [walk EXCEPT !.pc = "done", !.answers = res.answers,
                                   !.items = res.items,
                                   !.needUpstream = res.needUpstream,
                                   !.target = res.target, !.iters = res.iters]
    /\ getRes' = NoGet
    /\ UNCHANGED <<backend, now, vIn, vOut, gq, pipe, sel, udp, load, vcfg, cresp, gcalls, glog, srv, flight, mem, routeVars>>

\* The clock advances.  No step of the race reads the clock before its
\* arbitration, so ticks during the race are taken before its first step;
\* nothing reads the clock after the last Route call has returned.
Tick ==
    /\ now < MaxTime
    /\ rt.pc = "ecs_wait" => rt.i = 0 /\ ~rt.timedOut
    /\ rt.pc = "done" => routes < MaxRoutes
    /\ now' = now + 1
    /\ getRes' = NoGet
    /\ walk' = KeepWalk
    /\ UNCHANGED <<backend, store, vIn, vOut, gq, pipe, sel, udp, load, vcfg, cresp, gcalls, glog, srv, flight, mem, routeVars>>

NextCache ==
    \/ \E n \in CacheNames, t \in {TypeA, TypeCNAME} : CacheGet(n, t)
    \/ \E n \in CacheNames, t \in {TypeA, TypeCNAME} :
           \E items \in CacheItemLists(n, t) : CacheSet(n, t, items)
    \/ \E n \in CacheNames, t \in {TypeA, TypeCNAME} : CacheDelete(n, t)
    \/ CacheClear
    \/ \E n \in CacheNames : ResolveBegin(n)
    \/ ResolveWalk
    \/ Tick

SpecCache == InitCache /\ [][NextCache]_vars

\* C3: a GetRRs call that reports a hit returns only items that are not yet
\* expired at the instant of the call (now < stored_at + original_ttl, so an
\* item is not returned at the exact expiry instant either), and the call
\* reports a miss when every item under the key is expired.
ItemFresh(item, t) == t < item.storedAt + item.origTTL * TicksPerSecond

NoStaleGet ==
    /\ getRes.hit =>
           \A i \in 1..Len(getRes.items) : ItemFresh(getRes.items[i], getRes.at)
    /\ (\A i \in 1..Len(getRes.before) : ~ItemFresh(getRes.before[i], getRes.at))
           => ~getRes.hit

\* C4: every record ResolveCNAMEChain places in its answers carries a TTL
\* that does not exceed the original TTL of the cache item it was copied
\* from.
EgressTTLWithinOriginal ==
    walk.pc = "done" =>
        \A i \in 1..Len(walk.answers) : walk.answers[i].ttl <= walk.items[i].origTTL

(***************************************************************************)
(* Validation specification: handleIPValidation's decision on every merged *)
(* Answer of up to two records, every expected_ips list of up to two       *)
(* rules, with and without the databases.                                  *)
(***************************************************************************)
ValRRs ==
    {RRec(NA, TypeA, ip, 1) : ip \in IPs} \cup
    {RRec(NA, TypeAAAA, "ip_cn", 1), RRec(NA, TypeCNAME, NB, 1)}

ValRules ==
    {<<"geoip:", "cn">>, <<"geoip:", "!", "cn">>, <<"geoip:", "private">>,
     <<"geoip:", "CN">>, <<"asn:", 4134>>, <<"country:", "cn">>}

SeqsUpTo2(S) == {<<>>} \cup {<<x>> : x \in S} \cup {<<x, y>> : x \in S, y \in S}

InitValidate ==
    /\ RouterUnused
    /\ backend = "memory"
    /\ store = EmptyStore
    /\ now = 0
    /\ getRes = NoGet
    /\ walk = NoWalk
    /\ vIn \in [answer : SeqsUpTo2(ValRRs), rules : SeqsUpTo2(ValRules),
                fallback_group : {"", "direct"},
                db : [geo : BOOLEAN, asn : BOOLEAN]]
    /\ vOut = NoVerdict
    /\ gq = NoGroupQuery
    /\ pipe = NoPipe
    /\ sel = NoSel
    /\ udp = NoUDP
    /\ load = NoLoad
    /\ vcfg = NoValidate
    /\ cresp = NoCacheResp
    /\ gcalls = NoCalls
    /\ glog = NoLog
    /\ srv = NoServe
    /\ flight = NoFlight
    /\ mem = NoMem

HandleIPValidation ==
    /\ ~vOut.done
    /\ vOut' = [done |-> TRUE,
                validated |-> validateIPs(vIn.answer, vIn.rules, vIn.db),
                branch |-> IPValidationBranch(vIn.answer,
                               [expected_ips |-> vIn.rules,
                                fallback_group |-> vIn.fallback_group], vIn.db)]
    /\ UNCHANGED <<backend, store, now, getRes, walk, vIn, gq, pipe, sel, udp, load, vcfg, cresp, gcalls, glog, srv, flight, mem, routeVars>>

NextValidate == HandleIPValidation

SpecValidate == InitValidate /\ [][NextValidate]_vars

\* C6: validation passes if and only if the merged Answer holds no A/AAAA
\* address or every A/AAAA address in it matches at least one expected_ips
\* rule; one address matching no rule fails it, and an Answer without
\* addresses always takes the pass branch (no fallback).
AnswerAddresses(answer) ==
    {answer[i].data : i \in {j \in 1..Len(answer) : answer[j].type \in {TypeA, TypeAAAA}}}

ValidationIffAllMatch ==
    vOut.done =>
        /\ vOut.validated <=>
               \/ AnswerAddresses(vIn.answer) = {}
               \/ \A ip \in AnswerAddresses(vIn.answer) :
                      \E i \in 1..Len(vIn.rules) : Match(ip, vIn.rules[i], vIn.db)
        /\ AnswerAddresses(vIn.answer) = {} => vOut.branch = "pass"
        /\ vOut.branch = "pass" <=> vOut.validated

\* Witness of C6: a two-address Answer, one address matching a rule and the
\* other matching none, was rejected.
ValidationMixedRejected ==
    /\ vOut.done
    /\ ~vOut.validated
    /\ Cardinality(AnswerAddresses(vIn.answer)) = 2
    /\ \E ip \in AnswerAddresses(vIn.answer) :
           \E i \in 1..Len(vIn.rules) : Match(ip, vIn.rules[i], vIn.db)

(***************************************************************************)
(* Router specification: Route calls served one after another by one       *)
(* router over one cache, while the clock advances and the detached        *)
(* learning tasks run.                                                     *)
(***************************************************************************)
RuleCN == <<"geoip:", "cn">>

Opt(expected, fallbackGroup, disableCache, blockType) ==
    [expected_ips |-> expected, fallback_group |-> fallbackGroup,
     disable_cache |-> disableCache, block_type |-> blockType, rewrite_ttl |-> 0]

\* query_policy of the deployments.
Policies ==
    <<Policy("ads_site", "block", Opt(<<>>, "", FALSE, "nxdomain")),
      Policy("cn_site", "proxy", Opt(<<RuleCN>>, "direct", FALSE, "")),
      Policy("cn_nocache", "proxy", Opt(<<RuleCN>>, "direct", TRUE, "")),
      Policy("cn_strict", "proxy", Opt(<<RuleCN>>, "", FALSE, "")),
      Policy("cn_strict_nocache", "proxy", Opt(<<RuleCN>>, "", TRUE, "")),
      Policy("plain_site", "direct", [NoOptions EXCEPT !.rewrite_ttl = MaxTTL]),
      Policy("direct_site", "direct", NoOptions),
      Policy("proxy_site", "proxy", NoOptions)>>

DA == <<"a", "t">>
DB == <<"b", "t">>
DBU == <<"B", "t">>
QueryDomains == {DA, DB, DBU}

RouterCfg ==
    [policies |-> Policies, rules |-> <<RuleCN>>, db |-> [geo |-> TRUE, asn |-> TRUE],
     names |-> {DA, DB}]

\* The category store as bulk-loaded at startup, one map per deployment.
Categories ==
    {(DA :> "plain_site") @@ (DB :> "ads_site"),
     (DA :> "cn_site") @@ (DB :> "cn_nocache"),
     (DA :> "cn_strict"),
     (DB :> "cn_strict_nocache"),
     (<<"t">> :> "misc_site")}

\* A deployment: the category store at startup and the names its clients
\* ask for, which are the names the store tags.  The last store has a
\* category on the parent suffix "t" that no policy names; its client asks
\* for b.t as "B.t".
Deployments ==
    {[category |-> c, names |-> IF <<"t">> \in DOMAIN c THEN {DBU} ELSE DOMAIN c] :
        c \in Categories}

RBundle == [rt |-> rt, store |-> store, learn |-> learn, qlog |-> qlog, wlog |-> wlog]

Apply(b) ==
    /\ rt' = b.rt
    /\ store' = b.store
    /\ learn' = b.learn
    /\ qlog' = b.qlog
    /\ wlog' = b.wlog

Init ==
    /\ backend \in WiredBackends
    /\ store = EmptyStore
    /\ now = 0
    /\ getRes = NoGet
    /\ walk = NoWalk
    /\ vIn = NoValidation
    /\ vOut = NoVerdict
    /\ \E dep \in Deployments :
           /\ cfg = [RouterCfg EXCEPT !.names = dep.names]
           /\ category = dep.category
    /\ rt = RtIdle
    /\ learn = {}
    /\ qlog = <<>>
    /\ wlog = {}
    /\ routes = 0
    /\ gq = NoGroupQuery
    /\ pipe = NoPipe
    /\ sel = NoSel
    /\ udp = NoUDP
    /\ load = NoLoad
    /\ vcfg = NoValidate
    /\ cresp = NoCacheResp
    /\ gcalls = NoCalls
    /\ glog = NoLog
    /\ srv = NoServe
    /\ flight = NoFlight
    /\ mem = NoMem

RouteBegin(domain, qtype) ==
    /\ rt.pc \in {"idle", "done"}
    /\ routes < MaxRoutes
    /\ domain \in cfg.names
    /\ routes' = routes + 1
    /\ Apply(RouteEntry(RBundle, backend, cfg, category, domain, qtype, now))
    /\ UNCHANGED <<backend, now, cacheAux, cfg, category>>

PrimaryReturn ==
    /\ rt.pc = "primary"
    /\ \E o \in UpOutcomes(qlog[1].group, qlog[1].name, qlog[1].qtype) :
           IF o.err
           THEN Apply(PrimaryFailed(RBundle))
           ELSE Apply(AfterPrimary(RBundle, backend, cfg, Msg(o.rcode, o.answer, 1), now))
    /\ UNCHANGED <<backend, now, cacheAux, cfg, category, routes>>

FallbackReturn ==
    /\ rt.pc = "fallback"
    /\ LET q == qlog[Len(qlog)]
       IN  \E o \in UpOutcomes(q.group, q.name, q.qtype) :
               IF o.err
               THEN Apply(Return(RBundle, NilMsg, "fallback query failed", "fallback_failed"))
               ELSE LET fallbackResp == Msg(o.rcode, o.answer, Len(qlog))
                    IN  Apply(CacheAndReturn([RBundle EXCEPT !.rt.fallback = fallbackResp],
                                  backend, mergeCNAMEChain(rt.cachedAnswers, fallbackResp),
                                  now, "fallback_group"))
    /\ UNCHANGED <<backend, now, cacheAux, cfg, category, routes>>

\* select: case res := <-resChan.  The goroutine of group g got its group's
\* outcome and sent it on resChan (capacity 2, so the send never blocks);
\* the loop receives it.  A result sent after the loop has ended is never
\* received.
EcsRecv(g) ==
    /\ rt.pc = "ecs_wait"
    /\ rt.i < 2
    /\ g \in rt.pending
    /\ LET qid == rt.ecsBase + (IF g = "proxy_ecs" THEN 1 ELSE 2)
       IN  \E o \in UpOutcomes(g, rt.domain, rt.qtype) :
               LET resp == IF o.err THEN NilMsg ELSE Msg(o.rcode, o.answer, qid)
               IN  Apply(EcsLoopStep([RBundle EXCEPT !.rt = EcsStoreResult(rt, g, resp)],
                                     backend, cfg, now))
    /\ UNCHANGED <<backend, now, cacheAux, cfg, category, routes>>

\* select: case <-timeout.  The timer channel delivers once; the break
\* leaves the select, not the loop.  The timer is not tied to the model's
\* clock: upstream latency is unconstrained.
EcsTimeout ==
    /\ rt.pc = "ecs_wait"
    /\ rt.i < 2
    /\ ~rt.timedOut
    /\ LET r1 == [rt EXCEPT !.timedOut = TRUE, !.i = rt.i + 1]
       IN  Apply(EcsLoopStep([RBundle EXCEPT !.rt = r1], backend, cfg, now))
    /\ UNCHANGED <<backend, now, cacheAux, cfg, category, routes>>

\* Variant: asyncCacheCategory(domain, "direct_site") is started before the
\* error of the direct query is looked at.
DirectReturnLearnsAlways ==
    /\ rt.pc = "direct"
    /\ \E o \in UpOutcomes("direct", rt.domain, rt.qtype) :
           IF o.err
           THEN Apply(EcsReturn([RBundle EXCEPT !.learn =
                                     learn \cup {[domain |-> rt.domain,
                                                  category |-> "direct_site"]}],
                                backend, NilMsg, "direct query failed", now,
                                "ecs_direct_failed"))
           ELSE LET directResp == Msg(o.rcode, o.answer, Len(qlog))
                IN  Apply(EcsUse([RBundle EXCEPT !.rt.direct = directResp], backend,
                                 directResp, "direct_site", now, "ecs_direct"))
    /\ UNCHANGED <<backend, now, cacheAux, cfg, category, routes>>

\* directResp, err := r.upstreamMgr.Query(ctx, "direct", domain, qtype)
\* returns: the reply is cached, learned and returned, the error is returned.
DirectReturn ==
    /\ rt.pc = "direct"
    /\ \E o \in UpOutcomes("direct", rt.domain, rt.qtype) :
           IF o.err
           THEN Apply(EcsReturn(RBundle, backend, NilMsg, "direct query failed", now,
                                "ecs_direct_failed"))
           ELSE LET directResp == Msg(o.rcode, o.answer, Len(qlog))
                IN  Apply(EcsUse([RBundle EXCEPT !.rt.direct = directResp], backend,
                                 directResp, "direct_site", now, "ecs_direct"))
    /\ UNCHANGED <<backend, now, cacheAux, cfg, category, routes>>

\* asyncCacheCategory: categoryCache.Set(domain, category).  The category
\* store is read at the entry of Route only, so a task that runs during a
\* Route call is taken to run after it.
LearnRun(task) ==
    /\ task \in learn
    /\ rt.pc \in {"idle", "done"}
    /\ learn' = learn \ {task}
    /\ category' = (task.domain :> task.category) @@ category
    /\ UNCHANGED <<backend, store, now, cacheAux, cfg, rt, qlog, wlog, routes>>

Next ==
    \/ \E d \in QueryDomains : RouteBegin(d, TypeA)
    \/ PrimaryReturn
    \/ FallbackReturn
    \/ \E g \in Groups : EcsRecv(g)
    \/ EcsTimeout
    \/ DirectReturn
    \/ \E task \in learn : LearnRun(task)
    \/ Tick

Spec == Init /\ [][Next]_vars

(***************************************************************************)
(* Properties of Route                                                     *)
(***************************************************************************)
Started == rt.pc # "idle"

OrdinaryGroup == rt.policy.group \notin {"block", "proxy_ecs_fallback"}

\* pivot_name: the target of the last cached CNAME, the query name itself
\* when nothing was collected.
Pivot ==
    IF rt.cachedAnswers = <<>> THEN rt.domain
    ELSE Fqdn(rt.cachedAnswers[Len(rt.cachedAnswers)].data)

\* The cache gave a CNAME chain but no record of qtype at its end, and the
\* policy names an ordinary group.
PartialChain ==
    /\ Started
    /\ rt.needUpstream
    /\ rt.cachedAnswers # <<>>
    /\ OrdinaryGroup

Unmatched(ip, rules) == \A i \in 1..Len(rules) : ~Match(ip, rules[i], cfg.db)

\* The primary group replied and the merged Answer fails expected_ips.
ValidationFailed ==
    /\ Started
    /\ OrdinaryGroup
    /\ ~rt.primary.nil
    /\ Len(rt.policy.options.expected_ips) > 0
    /\ \E ip \in AnswerAddresses(rt.cachedAnswers \o rt.primary.answer) :
           Unmatched(ip, rt.policy.options.expected_ips)

\* C1 as stated: with a partial chain in the cache, a Route call to an
\* ordinary group sends one upstream question in all, for (pivot, qtype).
PartialChainSingleQuestion ==
    (rt.pc = "done" /\ PartialChain) =>
        qlog = <<Query(rt.policy.group, Pivot, rt.qtype)>>

\* C1, amended: with a partial chain in the cache, the first upstream
\* question of a Route call to an ordinary group is (pivot, qtype), sent to
\* the policy's group; when the group replies and validation does not fail
\* it is the only question of the call, and the returned Answer is the
\* cached CNAME records in chain order followed by the upstream Answer.
PartialChainPivotQuestion ==
    PartialChain =>
        /\ Len(qlog) >= 1
        /\ qlog[1] = Query(rt.policy.group, Pivot, rt.qtype)
        /\ (rt.pc = "done" /\ ~rt.primary.nil /\ ~ValidationFailed) =>
               /\ Len(qlog) = 1
               /\ rt.err = ""
               /\ ~rt.reply.nil
               /\ rt.reply.answer = rt.cachedAnswers \o rt.primary.answer

PartialChainMerged ==
    /\ rt.pc = "done"
    /\ PartialChain
    /\ ~rt.primary.nil
    /\ ~ValidationFailed
    /\ rt.primary.answer # <<>>
    /\ Len(rt.reply.answer) > Len(rt.primary.answer)

\* Every item of st2 is an item of st1 under the same key.
NothingStored(st1, st2) ==
    \A k \in Keys :
        \A i \in 1..Len(StoredItems(backend, st2, k)) :
            \E j \in 1..Len(StoredItems(backend, st1, k)) :
                StoredItems(backend, st1, k)[j] = StoredItems(backend, st2, k)[i]

\* C2: a Route call whose ResolveCNAMEChain reports needUpstream = false
\* returns at once a reply whose Answer is exactly the collected records,
\* sends no upstream query, starts no category write and stores nothing in
\* the cache.
CacheServedFrame ==
    [][(rt' # rt /\ rt'.pc # "idle" /\ ~rt'.needUpstream) =>
           /\ rt'.pc = "done"
           /\ rt'.err = ""
           /\ ~rt'.reply.nil
           /\ rt'.reply.answer = rt'.cachedAnswers
           /\ qlog' = <<>>
           /\ wlog' = {}
           /\ learn' = learn
           /\ category' = category
           /\ NothingStored(store, store')]_vars

CacheServedChain ==
    /\ rt.pc = "done"
    /\ ~rt.needUpstream
    /\ Len(rt.cachedAnswers) >= 2
    /\ rt.cachedAnswers[1].type = TypeCNAME
    /\ rt.reply.answer = rt.cachedAnswers

\* The classifier maps d to a category whose first matching policy has group
\* "block".
Blocked(cat, d) ==
    LET m == MatcherMatch(cat, d)
    IN  findPolicy(cfg.policies, IF m.matched THEN m.group ELSE "unknown").group = "block"

\* C5 as stated: a Route call for a blocked name returns the nxdomain block
\* reply, sends no upstream query and writes nothing to the cache, whatever
\* the cache holds.
BlockedNameAlwaysBlocked ==
    [][(rt' # rt /\ rt.pc \in {"idle", "done"} /\ Blocked(category, rt'.domain)) =>
           /\ rt'.pc = "done"
           /\ rt'.err = ""
           /\ ~rt'.reply.nil
           /\ rt'.reply.rcode = RcodeNameError
           /\ rt'.reply.answer = <<>>
           /\ qlog' = <<>>
           /\ wlog' = {}]_vars

\* C5, amended: a Route call for a blocked name whose ResolveCNAMEChain
\* reports needUpstream = true returns the nxdomain block reply, sends no
\* upstream query and writes nothing to the cache.
BlockedNameBlockedOnMiss ==
    [][(rt' # rt /\ rt.pc \in {"idle", "done"} /\ Blocked(category, rt'.domain)
            /\ rt'.needUpstream) =>
           /\ rt'.pc = "done"
           /\ rt'.err = ""
           /\ ~rt'.reply.nil
           /\ rt'.reply.rcode = RcodeNameError
           /\ rt'.reply.answer = <<>>
           /\ qlog' = <<>>
           /\ wlog' = {}
           /\ NothingStored(store, store')]_vars

BlockedNameMiss ==
    /\ rt.pc = "done"
    /\ rt.needUpstream
    /\ Blocked(category, rt.domain)
    /\ rt.reply.rcode = RcodeNameError
    /\ qlog = <<>>
    /\ \E k \in Keys : store[k] # <<>>

\* C7: when validation fails and the policy names a fallback_group, the
\* call sends one more question, to that group and for the pivot name;
\* the group's reply, merged with the collected records, is returned
\* without validation and cached unless disable_cache; its error is
\* returned as an error; ecs-fallback is never entered.
FallbackGroupFinal ==
    (ValidationFailed /\ rt.policy.options.fallback_group # "") =>
        /\ rt.pc \in {"fallback", "done"}
        /\ qlog = <<Query(rt.policy.group, Pivot, rt.qtype),
                    Query(rt.policy.options.fallback_group, Pivot, rt.qtype)>>
        /\ (rt.pc = "done" /\ ~rt.fallback.nil) =>
               /\ rt.err = ""
               /\ ~rt.reply.nil
               /\ rt.reply.rcode = rt.fallback.rcode
               /\ rt.reply.answer = rt.cachedAnswers \o rt.fallback.answer
               /\ IF rt.policy.options.disable_cache THEN wlog = {}
                  ELSE \E t \in 0..now : wlog = CacheWrites(rt.reply, 0, t)
        /\ (rt.pc = "done" /\ rt.fallback.nil) =>
               /\ rt.err # ""
               /\ rt.reply.nil
               /\ wlog = {}

FallbackGroupUnvalidated ==
    /\ rt.pc = "done"
    /\ ValidationFailed
    /\ rt.policy.options.fallback_group # ""
    /\ ~rt.policy.options.disable_cache
    /\ ~rt.fallback.nil
    /\ \E ip \in AnswerAddresses(rt.reply.answer) :
           Unmatched(ip, rt.policy.options.expected_ips)
    /\ wlog # {}

\* The outcome of ecs-fallback by the order of section 4.6: direct's outcome
\* on the proxy_ecs signal, else the proxy reply, else the proxy_ecs reply,
\* else an error.
EcsStarted ==
    /\ Started
    /\ Len(qlog) >= rt.ecsBase + 2
    /\ qlog[rt.ecsBase + 1] = Query("proxy_ecs", rt.domain, rt.qtype)
    /\ qlog[rt.ecsBase + 2] = Query("proxy", rt.domain, rt.qtype)

EcsSignal ==
    /\ ~rt.proxyECSResp.nil
    /\ \E ip \in AnswerAddresses(rt.proxyECSResp.answer) : ~Unmatched(ip, cfg.rules)

DirectQueries == {k \in (rt.ecsBase + 1)..Len(qlog) : qlog[k].group = "direct"}

EcsChosen ==
    IF EcsSignal THEN rt.direct
    ELSE IF ~rt.proxyResp.nil THEN rt.proxyResp
    ELSE rt.proxyECSResp

Returned(msg) ==
    IF msg.nil THEN rt.reply.nil /\ rt.err # ""
    ELSE rt.reply = msg /\ rt.err = ""

\* C8: when validation fails the primary group's reply is never returned
\* and none of its records is written to the cache by the call; without a
\* fallback_group the call runs ecs-fallback with the default policy on the
\* query name and returns its outcome.
FailedPrimaryDiscarded ==
    ValidationFailed =>
        /\ \A w \in wlog : w.qid # 1
        /\ rt.pc = "done" => (rt.reply.nil \/ rt.reply.qid # 1)
        /\ rt.policy.options.fallback_group = "" =>
               /\ rt.pc \in {"ecs_wait", "direct", "done"}
               /\ rt.ecsBase = 1
               /\ EcsStarted
               /\ rt.ecsPolicy = DefaultPolicy
               /\ rt.pc = "done" => Returned(EcsChosen)

EscalatedAfterFailedValidation ==
    /\ rt.pc = "done"
    /\ ValidationFailed
    /\ rt.policy.options.fallback_group = ""
    /\ ~rt.reply.nil
    /\ rt.reply.answer = rt.primary.answer
    /\ wlog # {}

\* C9: once the wait phase of ecs-fallback is over with a proxy_ecs reply
\* one of whose addresses matches the fallback ruleset, direct has been
\* queried exactly once, after the two questions of the race, and the
\* strategy returns direct's reply, or direct's error; no question goes to
\* direct while the wait phase lasts.
EcsDirectDecides ==
    /\ (EcsStarted /\ rt.pc \in {"direct", "done"} /\ EcsSignal) =>
           /\ DirectQueries = {rt.ecsBase + 3}
           /\ qlog[rt.ecsBase + 3] = Query("direct", rt.domain, rt.qtype)
           /\ rt.pc = "done" => Returned(rt.direct)
    /\ (EcsStarted /\ rt.pc = "ecs_wait") => DirectQueries = {}

EcsDirectErrorReturned ==
    /\ rt.pc = "done"
    /\ EcsStarted
    /\ EcsSignal
    /\ ~rt.proxyResp.nil
    /\ rt.direct.nil
    /\ rt.reply.nil
    /\ rt.err # ""

\* C10: a question is sent to direct during ecs-fallback only if proxy_ecs
\* produced a reply holding an address that matches the fallback ruleset.
DirectOnlyOnSignal ==
    EcsStarted => (DirectQueries # {} => EcsSignal)

EcsNoSignalNoDirect ==
    /\ rt.pc = "done"
    /\ EcsStarted
    /\ ~rt.proxyECSResp.nil
    /\ AnswerAddresses(rt.proxyECSResp.answer) # {}
    /\ ~EcsSignal
    /\ DirectQueries = {}
    /\ ~rt.reply.nil

\* C11: when the wait phase of ecs-fallback ends without the proxy_ecs
\* signal (no proxy_ecs reply, or none of its addresses matches the fallback
\* ruleset), the strategy returns the proxy reply if there is one, else the
\* proxy_ecs reply if there is one, starting the learning task
\* (qname, proxy_site) in both cases, else the error "all fallback queries
\* failed" with no learning task.
EcsProxyThenProxyEcs ==
    [][(rt.pc = "ecs_wait" /\ rt'.pc = "done" /\ ~EcsSignal') =>
           /\ DirectQueries' = {}
           /\ IF ~rt'.proxyResp.nil
              THEN /\ rt'.reply = rt'.proxyResp
                   /\ rt'.err = ""
                   /\ learn' = learn \cup {[domain |-> rt.domain, category |-> "proxy_site"]}
              ELSE IF ~rt'.proxyECSResp.nil
              THEN /\ rt'.reply = rt'.proxyECSResp
                   /\ rt'.err = ""
                   /\ learn' = learn \cup {[domain |-> rt.domain, category |-> "proxy_site"]}
              ELSE /\ rt'.reply.nil
                   /\ rt'.err = "all fallback queries failed"
                   /\ learn' = learn]_vars

EcsProxyEcsReplyUsed ==
    /\ rt.pc = "done"
    /\ EcsStarted
    /\ rt.proxyResp.nil
    /\ ~rt.proxyECSResp.nil
    /\ ~EcsSignal
    /\ rt.reply = rt.proxyECSResp
    /\ [domain |-> rt.domain, category |-> "proxy_site"] \in learn

\* C12: once the deadline of the wait phase has fired, ecs-fallback waits no
\* longer: it arbitrates over the results received until then, also when
\* none had been received.
DeadlineEndsWait ==
    (EcsStarted /\ rt.timedOut) => rt.pc # "ecs_wait"

\* C13: when the learning task of an ecs-fallback routing for q has run,
\* classifying q gives the learned tag, for every name the listener hands
\* to Route and whatever the category store held for the suffixes of q.
LearnedTagClassified ==
    [][\A task \in learn \ learn' :
           rt' = rt =>
               MatcherMatch(category', task.domain)
                   = [group |-> task.category, matched |-> TRUE]]_vars

(***************************************************************************)
(* Upstream group specification: Group.Query calls on a group of up to     *)
(* MaxUpstreams nameservers, one call after another, under every           *)
(* interleaving of the goroutines and the caller's loop.  The goroutines   *)
(* of a call that has returned are followed until the next call begins;    *)
(* they share nothing with it.                                             *)
(***************************************************************************)
SameRecord == RRec(NA, TypeA, "ip_cn", 1)

ExchangeOutcomes(w) ==
    {ExchangeErr(w), ExchangeReply(RcodeSuccess, <<SameRecord>>),
     ExchangeReply(RcodeSuccess, <<RRec(NA, TypeA, "ip_us", MaxTTL)>>)}

GroupPlans ==
    UNION {{plan \in [1..n -> UNION {ExchangeOutcomes(w) : w \in 1..n}] :
                \A w \in 1..n : plan[w] \in ExchangeOutcomes(w)} : n \in 0..MaxUpstreams}

InitGroup ==
    /\ RouterUnused
    /\ backend = "memory"
    /\ store = EmptyStore
    /\ now = 0
    /\ getRes = NoGet
    /\ walk = NoWalk
    /\ vIn = NoValidation
    /\ vOut = NoVerdict
    /\ gq = NoGroupQuery
    /\ pipe = NoPipe
    /\ sel = NoSel
    /\ udp = NoUDP
    /\ load = NoLoad
    /\ vcfg = NoValidate
    /\ cresp = NoCacheResp
    /\ gcalls = NoCalls
    /\ glog = NoLog
    /\ srv = NoServe
    /\ flight = NoFlight
    /\ mem = NoMem

GroupQuery(plan) ==
    /\ gq.pc \in {"idle", "done"}
    /\ gq' = GroupQueryEntry(plan)
    /\ UNCHANGED <<backend, store, now, getRes, walk, vIn, vOut, pipe, sel, udp, load, vcfg, cresp, gcalls, glog, srv, flight, mem, routeVars>>

GroupWorkerCheck(w) ==
    /\ w \in DOMAIN gq.ws
    /\ gq.ws[w] = "exchange"
    /\ gq' = WorkerCheck(gq, w)
    /\ UNCHANGED <<backend, store, now, getRes, walk, vIn, vOut, pipe, sel, udp, load, vcfg, cresp, gcalls, glog, srv, flight, mem, routeVars>>

GroupWorkerSend(w) ==
    /\ w \in DOMAIN gq.ws
    /\ gq.ws[w] = "send"
    /\ gq' = WorkerSend(gq, w)
    /\ UNCHANGED <<backend, store, now, getRes, walk, vIn, vOut, pipe, sel, udp, load, vcfg, cresp, gcalls, glog, srv, flight, mem, routeVars>>

GroupLoopRecv ==
    /\ gq.pc = "wait"
    /\ gq.resChan # <<>>
    /\ gq' = QueryLoop(gq)
    /\ UNCHANGED <<backend, store, now, getRes, walk, vIn, vOut, pipe, sel, udp, load, vcfg, cresp, gcalls, glog, srv, flight, mem, routeVars>>

NextGroup ==
    \/ \E plan \in GroupPlans : GroupQuery(plan)
    \/ \E w \in 1..MaxUpstreams : GroupWorkerCheck(w)
    \/ \E w \in 1..MaxUpstreams : GroupWorkerSend(w)
    \/ GroupLoopRecv

SpecGroup == InitGroup /\ [][NextGroup]_vars

Succeeds(o) == o.err = <<>> /\ ~o.resp.nil

\* C14: a Group.Query call surfaces one outcome, a reply or an error; a
\* reply is the reply one successful worker sent, whatever the order in
\* which the workers finish; when every nameserver would return the same A
\* record the returned Answer is that record; what the other workers do
\* after the return changes nothing of the outcome.
GroupOneReply ==
    /\ [](gq.pc = "done" =>
            /\ gq.reply.nil <=> gq.err # <<>>
            /\ ~gq.reply.nil =>
                   /\ \E w \in 1..Len(gq.plan) :
                          Succeeds(gq.plan[w]) /\ gq.reply = gq.plan[w].resp
                   /\ (\A w \in 1..Len(gq.plan) : gq.plan[w].resp.answer = <<SameRecord>>)
                          => gq.reply.answer = <<SameRecord>>)
    /\ [][(gq.pc = "done" /\ gq'.pc = "done" /\ gq'.plan = gq.plan) =>
              (gq'.reply = gq.reply /\ gq'.err = gq.err)]_vars

GroupTwoSucceed ==
    /\ gq.pc = "done"
    /\ Len(gq.plan) >= 2
    /\ \A w \in 1..Len(gq.plan) : gq.plan[w].resp.answer = <<SameRecord>>
    /\ Len(gq.recv) = 1
    /\ gq.recv[1].nameserver = 2
    /\ gq.ws[1] = "sent"
    /\ gq.reply.answer = <<SameRecord>>

PipeItemLists ==
    LET It(ip, ttl) == MkItem(RRec(NA, TypeA, ip, ttl), ttl, 0, RcodeSuccess)
    IN  {<<It("ip_cn", 1)>>, <<It("ip_us", MaxTTL)>>, <<It("ip_cn", 1), It("ip_us", MaxTTL)>>,
         <<It("ip_us", 1), It("ip_cn", MaxTTL)>>}

InitPipe ==
    /\ RouterUnused
    /\ backend \in Backends
    /\ store = EmptyStore
    /\ now = 0
    /\ getRes = NoGet
    /\ walk = NoWalk
    /\ vIn = NoValidation
    /\ vOut = NoVerdict
    /\ gq = NoGroupQuery
    /\ pipe = NoPipe
    /\ sel = NoSel
    /\ udp = NoUDP
    /\ load = NoLoad
    /\ vcfg = NoValidate
    /\ cresp = NoCacheResp
    /\ gcalls = NoCalls
    /\ glog = NoLog
    /\ srv = NoServe
    /\ flight = NoFlight
    /\ mem = NoMem

\* SetRRs is called: the clock is read, the commands are queued and Exec
\* begins.  pre and post record the value under the key before the call
\* and the value the call stores when nothing runs in between.
PipeSet(n, t, items) ==
    /\ ~pipe.busy
    /\ pipe' = [busy |-> TRUE, key |-> CacheKey(n, t), items |-> items,
                cmds |-> PipeCommands(backend, items, now),
                pre |-> store[CacheKey(n, t)],
                post |-> SetRRs(backend, store, n, t, items, now)[CacheKey(n, t)]]
    /\ getRes' = NoGet
    /\ UNCHANGED <<backend, store, now, walk, vIn, vOut, gq, sel, udp, load, vcfg, cresp, gcalls, glog, srv, flight, mem, routeVars>>

\* The store runs the next command of the call; after the last one SetRRs
\* returns.
PipeExec ==
    /\ pipe.busy
    /\ store' = [store EXCEPT ![pipe.key] = ExecCommand(store[pipe.key], Head(pipe.cmds))]
    /\ pipe' = [pipe EXCEPT !.cmds = Tail(pipe.cmds), !.busy = Len(pipe.cmds) > 1]
    /\ UNCHANGED <<backend, now, getRes, walk, vIn, vOut, gq, sel, udp, load, vcfg, cresp, gcalls, glog, srv, flight, mem, routeVars>>

\* GetRRs by another caller.
PipeGet(n, t) ==
    LET r == GetRRs(backend, store, n, t, now)
    IN  /\ store' = r.store
        /\ getRes' = [key |-> CacheKey(n, t), hit |-> r.hit, items |-> r.items,
                      at |-> now,
                      before |-> StoredItems(backend, store, CacheKey(n, t))]
        /\ UNCHANGED <<backend, now, walk, vIn, vOut, gq, pipe, sel, udp, load, vcfg, cresp, gcalls, glog, srv, flight, mem, routeVars>>

NextPipe ==
    \/ \E items \in PipeItemLists : PipeSet(NA, TypeA, items)
    \/ PipeExec
    \/ PipeGet(NA, TypeA)
    \/ Tick

SpecPipe == InitPipe /\ [][NextPipe]_vars

\* What GetRRs at instant t returns when the key holds zs.
GetView(zs, t) ==
    LET r == GetRRs(backend, [store EXCEPT ![pipe.key] = zs], pipe.key[1], pipe.key[2], t)
    IN  [hit |-> r.hit, items |-> r.items]

\* C16: a GetRRs on key k that runs while a SetRRs on k is in progress
\* returns what it would return on the set stored before the write or on
\* the complete new set, never an empty, partial or mixed set, on every
\* backend.
GetSeesWholeSet ==
    (pipe.busy /\ getRes.key = pipe.key) =>
        [hit |-> getRes.hit, items |-> getRes.items]
            \in {GetView(pipe.pre, getRes.at), GetView(pipe.post, getRes.at)}

(***************************************************************************)
(* Selection specification: steps 3 and 4 of Route (Matcher.Match, then    *)
(* findPolicy) applied to one name after another, over a category store    *)
(* and a policy list drawn from bounded sets.                              *)
(***************************************************************************)
SelSuffixes == {<<"t">>, <<"b", "t">>, <<"a", "b", "t">>}

SelTags == {"x_site", "y_site", "z_site"}

\* Category stores with a tag on any of the suffixes of a.b.t.
SelStores ==
    UNION {[keys -> SelTags] : keys \in SUBSET SelSuffixes}

SelNames ==
    {<<"a", "b", "t">>, <<"a", "B", "t">>, <<"a", "b", "t", "">>, DB, DBU, <<"c", "t">>,
     <<"t">>, <<"">>}

\* Policy lists: two policies of one name, a policy named "unknown", no
\* policy at all; none names z_site.
SelPolicies ==
    {<<Policy("x_site", "direct", NoOptions), Policy("y_site", "block", NoOptions),
       Policy("x_site", "proxy", NoOptions)>>,
     <<Policy("y_site", "proxy", NoOptions), Policy("unknown", "direct", NoOptions)>>,
     <<>>}

InitSelect ==
    /\ backend = "memory"
    /\ store = EmptyStore
    /\ now = 0
    /\ getRes = NoGet
    /\ walk = NoWalk
    /\ vIn = NoValidation
    /\ vOut = NoVerdict
    /\ gq = NoGroupQuery
    /\ pipe = NoPipe
    /\ sel = NoSel
    /\ udp = NoUDP
    /\ load = NoLoad
    /\ vcfg = NoValidate
    /\ cresp = NoCacheResp
    /\ gcalls = NoCalls
    /\ glog = NoLog
    /\ srv = NoServe
    /\ flight = NoFlight
    /\ mem = NoMem
    /\ \E ps \in SelPolicies : cfg = [NoCfg EXCEPT !.policies = ps]
    /\ category \in SelStores
    /\ rt = RtIdle
    /\ learn = {}
    /\ qlog = <<>>
    /\ wlog = {}
    /\ routes = 0

\* groupName, matched := r.matcher.Match(domain); "unknown" when unmatched;
\* policy := r.findPolicy(groupName)
Select(domain) ==
    /\ LET m == MatcherMatch(category, domain)
           groupName == IF m.matched THEN m.group ELSE "unknown"
       IN  sel' = [done |-> TRUE, domain |-> domain, m |-> m,
                   policy |-> findPolicy(cfg.policies, groupName)]
    /\ UNCHANGED <<backend, store, now, getRes, walk, vIn, vOut, gq, pipe, udp, load, vcfg, cresp, gcalls, glog, srv, flight, mem,
                   routeVars>>

NextSelect == \E domain \in SelNames : Select(domain)

SpecSelect == InitSelect /\ [][NextSelect]_vars

\* The suffixes of the normalized name that carry a tag in the store.
TaggedSuffixes(cat, domain) ==
    LET d == LowerName(TrimDot(domain))
    IN  {x \in {SubSeq(d, i, Len(d)) : i \in 1..Len(d)} : x \in DOMAIN cat /\ cat[x] # ""}

\* C17: classifying a name is a hit whenever the normalized name or one of
\* its parent suffixes, down to the top-level label, has a tag in the
\* category store, and the tag returned is that of the longest such suffix;
\* it is ("", false) only when no suffix has a tag.
ClassifyLongestSuffix ==
    sel.done =>
        LET tagged == TaggedSuffixes(category, sel.domain)
        IN  IF tagged = {} THEN sel.m = [group |-> "", matched |-> FALSE]
            ELSE /\ sel.m.matched
                 /\ \E x \in tagged :
                        /\ \A y \in tagged : Len(y) <= Len(x)
                        /\ sel.m.group = category[x]

ClassifiedByParent ==
    /\ sel.done
    /\ sel.domain = <<"a", "B", "t">>
    /\ DOMAIN category = {<<"t">>, <<"b", "t">>}
    /\ category[<<"t">>] # category[<<"b", "t">>]
    /\ sel.m = [group |-> category[<<"b", "t">>], matched |-> TRUE]

\* C18: the policy selected is the first one in configuration order whose
\* name equals the category ("unknown" when the classifier missed); when no
\* policy has that name, also for a category the store holds, it is the
\* default {unknown, proxy_ecs_fallback} with default options.
FirstPolicyOrDefault ==
    sel.done =>
        LET groupName == IF sel.m.matched THEN sel.m.group ELSE "unknown"
            named == {i \in 1..Len(cfg.policies) : cfg.policies[i].name = groupName}
        IN  IF named = {}
            THEN sel.policy = [name |-> "unknown", group |-> "proxy_ecs_fallback",
                               options |-> NoOptions]
            ELSE \E i \in named :
                     /\ \A j \in named : i <= j
                     /\ sel.policy = cfg.policies[i]

FirstOfTwoPolicies ==
    /\ sel.done
    /\ sel.m.matched
    /\ \E i, j \in 1..Len(cfg.policies) :
           /\ i < j
           /\ cfg.policies[i].name = sel.m.group
           /\ cfg.policies[j].name = sel.m.group
           /\ cfg.policies[i] # cfg.policies[j]
           /\ sel.policy = cfg.policies[i]

\* C19: a Route call whose policy has disable_cache writes nothing to the
\* RR cache, whether the reply comes from the policy's group, from the
\* fallback_group, or from ecs-fallback, chosen by the policy or entered
\* after a failed validation.
DisableCacheNoWrite ==
    (Started /\ rt.needUpstream /\ rt.policy.options.disable_cache) => wlog = {}

\* C20: with rewrite_ttl > 0 and caching enabled, every record a Route call
\* writes to the cache is stored with original_ttl = rewrite_ttl, up to the
\* clamp of the cache.
RewriteTTLStored ==
    (Started /\ rt.needUpstream /\ rt.policy.options.rewrite_ttl > 0
        /\ ~rt.policy.options.disable_cache) =>
        \A w \in wlog : \A i \in 1..Len(w.items) :
            ClampTTL(w.items[i].origTTL) = ClampTTL(rt.policy.options.rewrite_ttl)

\* C21: when the primary group's query of an ordinary policy fails, Route
\* returns that error with no further upstream query, no cache write and no
\* change of the category store; a group other than the policy's own is
\* queried only after a validation mismatch or under an ecs-fallback policy.
PrimaryErrorFinal ==
    /\ [](rt.path = "primary_failed" =>
              /\ rt.pc = "done"
              /\ rt.reply.nil
              /\ rt.err = "upstream query failed"
              /\ Len(qlog) = 1
              /\ qlog[1].group = rt.policy.group
              /\ wlog = {})
    /\ [](Started =>
              \A i \in 1..Len(qlog) :
                  qlog[i].group # rt.policy.group =>
                      ValidationFailed \/ rt.policy.group = "proxy_ecs_fallback")
    /\ [][(rt.pc = "primary" /\ rt'.path = "primary_failed") =>
              /\ store' = store
              /\ category' = category
              /\ learn' = learn]_vars

\* A policy with a fallback_group whose primary query failed, over a
\* non-empty cache.
PrimaryErrorWithFallbackGroup ==
    /\ rt.pc = "done"
    /\ rt.path = "primary_failed"
    /\ rt.policy.options.fallback_group # ""
    /\ store # EmptyStore

(***************************************************************************)
(* Termination of Route.  Every upstream group query eventually returns a  *)
(* reply or an error: Group.Query returns once its goroutines have sent    *)
(* their results, and the goroutines of handleProxyECSFallbackV2 send on a *)
(* channel of capacity 2, so a step that delivers a query's outcome is     *)
(* taken once it is enabled.  The timer of the wait loop and the arrival   *)
(* of new client queries carry no fairness.  No step of Route waits for    *)
(* the clock (the deadline of the wait loop is EcsTimeout), so the clock   *)
(* stands still here.                                                      *)
(***************************************************************************)
NextLive ==
    \/ \E d \in QueryDomains : RouteBegin(d, TypeA)
    \/ PrimaryReturn
    \/ FallbackReturn
    \/ \E g \in Groups : EcsRecv(g)
    \/ EcsTimeout
    \/ DirectReturn
    \/ \E task \in learn : LearnRun(task)

SpecLive ==
    /\ Init
    /\ [][NextLive]_vars
    /\ WF_vars(PrimaryReturn)
    /\ WF_vars(FallbackReturn)
    /\ WF_vars(\E g \in Groups : EcsRecv(g))
    /\ WF_vars(DirectReturn)

Running == rt.pc \notin {"idle", "done"}

\* C22: every Route call reaches a terminal state, a returned reply or a
\* returned error, whatever the arrival order of the two ecs-fallback
\* results and the deadline.
RouteTerminates ==
    /\ [](rt.pc = "done" =>
              \/ ~rt.reply.nil /\ rt.err = ""
              \/ rt.reply.nil /\ rt.err # "")
    /\ (Running ~> rt.pc = "done")

\* An ecs-fallback call that returned a reply although the deadline fired
\* during its wait loop.
EcsDoneAfterDeadline ==
    /\ rt.pc = "done"
    /\ EcsStarted
    /\ rt.timedOut
    /\ ~rt.reply.nil

(***************************************************************************)
(* Properties of the address matcher, on the inputs of the validation      *)
(* specification                                                           *)
(***************************************************************************)
\* The rule consults the country database: geoip:<cc> or geoip:!<cc>.
ConsultsCountryDB(rule) ==
    /\ Len(rule) > 1
    /\ rule[1] = "geoip:"
    /\ Tail(rule) # <<"private">>

ConsultsASNDB(rule) == Len(rule) > 1 /\ rule[1] = "asn:"

\* C23: without the country database Match is false on every geoip:<cc>
\* and geoip:!<cc> rule, and without the ASN database on every asn:<n>
\* rule.
MatchFalseWithoutDatabase ==
    vOut.done =>
        \A i \in 1..Len(vIn.rules) : \A ip \in IPs :
            /\ (~vIn.db.geo /\ ConsultsCountryDB(vIn.rules[i]))
                   => ~Match(ip, vIn.rules[i], vIn.db)
            /\ (~vIn.db.asn /\ ConsultsASNDB(vIn.rules[i]))
                   => ~Match(ip, vIn.rules[i], vIn.db)

(***************************************************************************)
(* Reply sizing specification: Server.ensureUDPSize on a reply whose three *)
(* sections hold up to MaxRecords records each.  A record is its packed    *)
(* size; resp.Len() is the fixed part of the message plus the sizes of the *)
(* records it holds.  Every iteration of the three loops is a step.        *)
(***************************************************************************)
DefaultUDPSize == 512
SafeUDPSize == 1232

\* Packed sizes of the header and question section.
FixedLens == {30}

RRSizes == {200, 500}

\* The UDP size the request advertises in its OPT record, 0 for a request
\* without EDNS0.
AdvertisedSizes == {0, 400, 1232, 4096}

RECURSIVE SumSeq(_)
SumSeq(q) == IF q = <<>> THEN 0 ELSE Head(q) + SumSeq(Tail(q))

\* resp.Len()
MsgLen(u) == u.fixed + SumSeq(u.answer) + SumSeq(u.ns) + SumSeq(u.extra)

ClientMaxSize(advertised) ==
    IF advertised = 0 THEN DefaultUDPSize
    ELSE IF advertised > SafeUDPSize THEN SafeUDPSize
    ELSE advertised

DropLast(q) == SubSeq(q, 1, Len(q) - 1)

\* ensureUDPSize up to its first loop.
EnsureEntry(isUDP, advertised, fixed, resp) ==
    LET u == [NoUDP EXCEPT !.isUDP = isUDP, !.answer = resp.answer, !.ns = resp.ns,
                           !.extra = resp.extra, !.sent = resp, !.fixed = fixed,
                           !.maxSize = ClientMaxSize(advertised)]
    IN  IF ~isUDP THEN [u EXCEPT !.pc = "done", !.maxSize = 0]
        ELSE IF MsgLen(u) <= u.maxSize THEN [u EXCEPT !.pc = "done"]
        ELSE [u EXCEPT !.pc = "extra", !.truncated = TRUE]

\* for resp.Len() > maxSize && len(resp.Extra) > 0
TrimExtra(u) ==
    IF MsgLen(u) > u.maxSize /\ Len(u.extra) > 0
    THEN [u EXCEPT !.extra = DropLast(u.extra)]
    ELSE [u EXCEPT !.pc = "ns"]

\* for resp.Len() > maxSize && len(resp.Ns) > 0
TrimNs(u) ==
    IF MsgLen(u) > u.maxSize /\ Len(u.ns) > 0
    THEN [u EXCEPT !.ns = DropLast(u.ns)]
    ELSE [u EXCEPT !.pc = "answer"]

\* Variant: the Answer loop runs until the section is empty.
TrimAnswerToEmpty(u) ==
    IF MsgLen(u) > u.maxSize /\ Len(u.answer) > 0
    THEN [u EXCEPT !.answer = DropLast(u.answer)]
    ELSE [u EXCEPT !.pc = "done"]

\* for resp.Len() > maxSize && len(resp.Answer) > 1
TrimAnswer(u) ==
    IF MsgLen(u) > u.maxSize /\ Len(u.answer) > 1
    THEN [u EXCEPT !.answer = DropLast(u.answer)]
    ELSE [u EXCEPT !.pc = "done"]

SeqsUpTo(S, n) == UNION {[1..k -> S] : k \in 0..n}

InitUDP ==
    /\ RouterUnused
    /\ backend = "memory"
    /\ store = EmptyStore
    /\ now = 0
    /\ getRes = NoGet
    /\ walk = NoWalk
    /\ vIn = NoValidation
    /\ vOut = NoVerdict
    /\ gq = NoGroupQuery
    /\ pipe = NoPipe
    /\ sel = NoSel
    /\ udp = NoUDP
    /\ load = NoLoad
    /\ vcfg = NoValidate
    /\ cresp = NoCacheResp
    /\ gcalls = NoCalls
    /\ glog = NoLog
    /\ srv = NoServe
    /\ flight = NoFlight
    /\ mem = NoMem

UDPUnchanged ==
    UNCHANGED <<backend, store, now, getRes, walk, vIn, vOut, gq, pipe, sel, load, vcfg, cresp, gcalls, glog, srv, flight, mem,
                routeVars>>

EnsureUDPSize(isUDP, advertised, fixed, resp) ==
    /\ udp.pc = "idle"
    /\ udp' = EnsureEntry(isUDP, advertised, fixed, resp)
    /\ UDPUnchanged

ExtraLoop ==
    /\ udp.pc = "extra"
    /\ udp' = TrimExtra(udp)
    /\ UDPUnchanged

NsLoop ==
    /\ udp.pc = "ns"
    /\ udp' = TrimNs(udp)
    /\ UDPUnchanged

AnswerLoop ==
    /\ udp.pc = "answer"
    /\ udp' = TrimAnswer(udp)
    /\ UDPUnchanged

\* The replies handed to ensureUDPSize.
UDPReplies ==
    [answer : SeqsUpTo(RRSizes, MaxRecords), ns : SeqsUpTo(RRSizes, MaxRecords),
     extra : SeqsUpTo(RRSizes, MaxRecords)]

NextUDP ==
    \/ /\ udp.pc = "idle"
       /\ \E isUDP \in BOOLEAN, advertised \in AdvertisedSizes, fixed \in FixedLens,
             resp \in UDPReplies :
             EnsureUDPSize(isUDP, advertised, fixed, resp)
    \/ ExtraLoop
    \/ NsLoop
    \/ AnswerLoop

SpecUDP == InitUDP /\ [][NextUDP]_vars

IsPrefix(p, q) == Len(p) <= Len(q) /\ p = SubSeq(q, 1, Len(p))

\* C24: a UDP reply still too large after compression gets TC, and records
\* are removed from the end of Additional first, of Authority only once
\* Additional is empty, of Answer only once Authority is empty; the last
\* Answer record stays.
TrimOrder ==
    /\ [](/\ (udp.isUDP /\ MsgLen([udp EXCEPT !.answer = udp.sent.answer, !.ns = udp.sent.ns,
                                             !.extra = udp.sent.extra]) > udp.maxSize
              /\ udp.pc # "idle") => udp.truncated
          /\ IsPrefix(udp.answer, udp.sent.answer)
          /\ IsPrefix(udp.ns, udp.sent.ns)
          /\ IsPrefix(udp.extra, udp.sent.extra)
          /\ udp.ns # udp.sent.ns => udp.extra = <<>>
          /\ udp.answer # udp.sent.answer => udp.ns = <<>> /\ udp.extra = <<>>
          /\ udp.sent.answer # <<>> => udp.answer # <<>>
          /\ udp.pc = "done" /\ udp.sent # [answer |-> udp.answer, ns |-> udp.ns,
                                            extra |-> udp.extra]
                => udp.truncated)
    /\ [][udp.pc # "idle" =>
              /\ udp'.ns # udp.ns => udp.extra = <<>> /\ udp.pc = "ns"
              /\ udp'.answer # udp.answer =>
                     udp.pc = "answer" /\ udp.ns = <<>> /\ udp.extra = <<>>
                     /\ Len(udp.answer) > 1]_udp

\* A reply cut down to its first Answer record and still over the limit.
TrimmedToOneAnswer ==
    /\ udp.pc = "done"
    /\ udp.truncated
    /\ Len(udp.sent.answer) = MaxRecords
    /\ udp.sent.ns # <<>>
    /\ udp.sent.extra # <<>>
    /\ Len(udp.answer) = 1
    /\ MsgLen(udp) > udp.maxSize

(***************************************************************************)
(* Loader specification: Loader.Load and Loader.LoadReverse on a           *)
(* domain_group configuration of up to MaxGroups categories.  config is    *)
(* the configuration as written, a sequence of [name, domains]; the        *)
(* program holds it as a Go map, whose iteration order is unspecified and  *)
(* differs from run to run, so every `range` over it takes one of the      *)
(* orders of its keys.                                                     *)
(***************************************************************************)
LoadGroupNames == {"ads_site", "cn_site", "proxy_site"}
LoadDomains == {"d1", "d2"}
LoadDomainLists == {<<>>, <<"d1">>, <<"d2">>, <<"d1", "d2">>}

LoadConfigs ==
    {c \in SeqsUpTo([name : LoadGroupNames, domains : LoadDomainLists], MaxGroups) :
        \A i, j \in 1..Len(c) : c[i].name = c[j].name => i = j}

\* The orders a range over a map with these keys may take.
RangeOrders(keys) ==
    {o \in [1..Cardinality(keys) -> keys] : \A i, j \in DOMAIN o : o[i] = o[j] => i = j}

ConfigKeys(config) == {config[i].name : i \in 1..Len(config)}

\* parser.ParseDomainGroup: group name -> the domains of its category specs.
ParseDomainGroup(config) ==
    [g \in ConfigKeys(config) |->
        config[CHOOSE i \in 1..Len(config) : config[i].name = g].domains]

\* for _, domain := range domains { batchData[domain] = groupName }
RECURSIVE PutDomains(_, _, _)
PutDomains(batchData, domains, groupName) ==
    IF domains = <<>> THEN batchData
    ELSE PutDomains((Head(domains) :> groupName) @@ batchData, Tail(domains), groupName)

\* The groups of order written one after the other, first to last.
RECURSIVE PutGroups(_, _, _)
PutGroups(batchData, order, config) ==
    IF order = <<>> THEN batchData
    ELSE PutGroups(PutDomains(batchData, ParseDomainGroup(config)[Head(order)], Head(order)),
                   Tail(order), config)

Reverse(q) == [i \in 1..Len(q) |-> q[Len(q) + 1 - i]]

\* Variant: Loader.LoadReverse writes the groups first to last.
LoadReverseForward(config, groupOrder) == PutGroups(<<>>, groupOrder, config)

\* Loader.LoadReverse: for i := len(groupOrder) - 1; i >= 0; i--
LoadReverseData(config, groupOrder) == PutGroups(<<>>, Reverse(groupOrder), config)

\* Loader.Load: for groupName, domains := range domainGroups
LoadData(config, rangeOrder) == PutGroups(<<>>, rangeOrder, config)

InitLoad == InitUDP

LoadUnchanged ==
    UNCHANGED <<backend, store, now, getRes, walk, vIn, vOut, gq, pipe, sel, udp, vcfg, cresp, gcalls, glog, srv, flight, mem,
                routeVars>>

\* groupOrder is built by `for groupName := range domainGroupConfig`; the
\* data is handed to BatchSet, which stores every pair.
LoadReverse(config) ==
    /\ ~load.done
    /\ \E groupOrder \in RangeOrders(ConfigKeys(config)) :
           load' = [done |-> TRUE, reverse |-> TRUE, config |-> config,
                    groupOrder |-> groupOrder,
                    data |-> LoadReverseData(config, groupOrder)]
    /\ LoadUnchanged

Load(config) ==
    /\ ~load.done
    /\ \E rangeOrder \in RangeOrders(ConfigKeys(config)) :
           load' = [done |-> TRUE, reverse |-> FALSE, config |-> config,
                    groupOrder |-> rangeOrder,
                    data |-> LoadData(config, rangeOrder)]
    /\ LoadUnchanged

NextLoad ==
    \/ \E config \in LoadConfigs : LoadReverse(config)
    \/ \E config \in LoadConfigs : Load(config)

SpecLoad == InitLoad /\ [][NextLoad]_vars

Contributes(config, i, d) == \E k \in 1..Len(config[i].domains) : config[i].domains[k] = d

\* C25: after a reverse load, a domain contributed to two categories is
\* stored under the one listed earlier in domain_group.
ReverseEarlierWins ==
    (load.done /\ load.reverse) =>
        \A d \in LoadDomains : \A i, j \in 1..Len(load.config) :
            (i < j /\ Contributes(load.config, i, d) /\ Contributes(load.config, j, d)
             /\ \A k \in 1..(i - 1) : ~Contributes(load.config, k, d))
                => load.data[d] = load.config[i].name

(***************************************************************************)
(* Configuration specification: config.validateOutbound on a configuration *)
(* with one declared outbound at most and the groups "direct" (fixed) and  *)
(* "proxy" (varied).  A nameserver is <<scheme, host>>; a bare address has *)
(* the empty scheme.                                                       *)
(***************************************************************************)
MaxPort == 65535

Schemes == {"", "udp://", "tcp://", "tls://", "https://", "quic://"}

Nameserver(scheme) == <<scheme, "1.1.1.1">>

\* strings.HasPrefix(ns, prefix), for a prefix that is a scheme.
HasPrefix(ns, prefix) == ns[1] = prefix

Outbound(tag, type, server, port) ==
    [tag |-> tag, type |-> type, server |-> server, port |-> port]

OutboundLists ==
    {<<>>,
     <<Outbound("px", "socks5", "127.0.0.1", 1080)>>,
     <<Outbound("px", "socks5", "", 1080)>>,
     <<Outbound("px", "socks5", "127.0.0.1", 0)>>,
     <<Outbound("px", "socks5", "127.0.0.1", MaxPort + 1)>>,
     <<Outbound("d2", "direct", "", 0)>>}

GroupOutbounds == {"", "direct", "px", "d2", "nx"}

validatePort(port) == IF port < 1 \/ port > MaxPort THEN "port out of range" ELSE ""

\* The first loop: every socks5 outbound needs server and port.
RECURSIVE OutboundLoop(_)
OutboundLoop(outbounds) ==
    IF outbounds = <<>> THEN ""
    ELSE LET ob == Head(outbounds)
         IN  IF ob.type = "socks5" /\ (ob.server = "" \/ ob.port = 0)
             THEN "socks5 outbound needs server and port"
             ELSE IF ob.type = "socks5" /\ validatePort(ob.port) # ""
             THEN validatePort(ob.port)
             ELSE OutboundLoop(Tail(outbounds))

\* outboundTypes: "direct" is always present; a later entry with the same
\* tag overwrites an earlier one; a missing tag reads as the empty string.
RECURSIVE outboundTypes(_, _)
outboundTypes(outbounds, tag) ==
    IF outbounds = <<>> THEN (IF tag = "direct" THEN "direct" ELSE "")
    ELSE LET last == outbounds[Len(outbounds)]
         IN  IF last.tag = tag THEN last.type
             ELSE outboundTypes(SubSeq(outbounds, 1, Len(outbounds) - 1), tag)

outboundTags(outbounds, tag) ==
    tag = "direct" \/ \E i \in 1..Len(outbounds) : outbounds[i].tag = tag

\* Variant: tcp:// nameservers are accepted as well.
AllowedThroughProxyWithTCP(ns) == HasPrefix(ns, "https://") \/ HasPrefix(ns, "tcp://")

\* strings.HasPrefix(ns, "https://")
AllowedThroughProxy(ns) == HasPrefix(ns, "https://")

\* for _, ns := range group.Nameservers
RECURSIVE NameserverLoop(_)
NameserverLoop(nameservers) ==
    IF nameservers = <<>> THEN ""
    ELSE IF ~AllowedThroughProxy(Head(nameservers)) THEN "nameserver must use HTTPS"
    ELSE NameserverLoop(Tail(nameservers))

\* The body of the loop over the groups, for one group.
GroupCheck(outbounds, group) ==
    IF group.outbound # "" /\ ~outboundTags(outbounds, group.outbound)
    THEN "outbound does not exist"
    ELSE IF group.outbound # "direct" /\ group.outbound # ""
            /\ outboundTypes(outbounds, group.outbound) # "direct"
    THEN NameserverLoop(group.nameservers)
    ELSE ""

\* for name, group := range groups, in the order the range takes.
RECURSIVE GroupLoop(_, _, _)
GroupLoop(outbounds, groups, order) ==
    IF order = <<>> THEN ""
    ELSE IF GroupCheck(outbounds, groups[Head(order)]) # ""
    THEN GroupCheck(outbounds, groups[Head(order)])
    ELSE GroupLoop(outbounds, groups, Tail(order))

validateOutbound(outbounds, groups, order) ==
    IF OutboundLoop(outbounds) # "" THEN OutboundLoop(outbounds)
    ELSE GroupLoop(outbounds, groups, order)

UpstreamGroups ==
    {("direct" :> [outbound |-> "", nameservers |-> <<Nameserver("")>>]) @@
     ("proxy" :> [outbound |-> ob, nameservers |-> nss]) :
        ob \in GroupOutbounds,
        nss \in {[i \in DOMAIN q |-> Nameserver(q[i])] : q \in SeqsUpTo(Schemes, MaxUpstreams)}}

InitValidateCfg == InitUDP

ValidateOutbound(outbounds, groups) ==
    /\ ~vcfg.done
    /\ \E order \in RangeOrders(DOMAIN groups) :
           vcfg' = [done |-> TRUE, outbounds |-> outbounds, groups |-> groups,
                    err |-> validateOutbound(outbounds, groups, order)]
    /\ UNCHANGED <<backend, store, now, getRes, walk, vIn, vOut, gq, pipe, sel, udp, load, cresp, gcalls, glog, srv, flight, mem,
                   routeVars>>

NextValidateCfg ==
    \E outbounds \in OutboundLists, groups \in UpstreamGroups :
        ValidateOutbound(outbounds, groups)

SpecValidateCfg == InitValidateCfg /\ [][NextValidateCfg]_vars

\* The proxy group goes through a declared socks5 outbound.
ThroughSocks5 ==
    /\ vcfg.done
    /\ OutboundLoop(vcfg.outbounds) = ""
    /\ outboundTypes(vcfg.outbounds, vcfg.groups["proxy"].outbound) = "socks5"

\* C26: a group with a socks5 outbound is accepted when all its nameservers
\* are https:// or tcp://, and rejected when one of them uses another
\* transport.
Socks5GroupHTTPSOrTCP ==
    ThroughSocks5 =>
        (vcfg.err = "" <=>
            \A i \in 1..Len(vcfg.groups["proxy"].nameservers) :
                vcfg.groups["proxy"].nameservers[i][1] \in {"https://", "tcp://"})

(***************************************************************************)
(* Chain specification: ResolveCNAMEChain over caches that hold a CNAME    *)
(* chain h0 -> h1 -> ... -> hk of up to maxDepth + 1 links, written by     *)
(* SetRRs at instant 0, which ends in nothing, in an A record at hk, or in *)
(* a CNAME from hk back to h0.  One link and the A record may carry the    *)
(* short TTL.                                                              *)
(***************************************************************************)
ChainLabels == <<"h0", "h1", "h2", "h3", "h4", "h5", "h6", "h7", "h8", "h9", "h10", "h11">>

ChainName(i) == <<ChainLabels[i + 1], "t", "">>

ChainKeys == {CacheKey(ChainName(i), t) : i \in 0..(Len(ChainLabels) - 1),
                                          t \in {TypeA, TypeCNAME}}

ChainEnds == {"none", "A", "cycle"}

ChainItem(rr) == MkItem(rr, rr.ttl, 0, RcodeSuccess)

\* The cache after one SetRRs per link, first link first.
RECURSIVE ChainLinks(_, _, _, _, _)
ChainLinks(be, st, i, k, short) ==
    IF i >= k THEN st
    ELSE ChainLinks(be,
                    SetRRs(be, st, ChainName(i), TypeCNAME,
                           <<ChainItem(RRec(ChainName(i), TypeCNAME, ChainName(i + 1),
                                            IF i + 1 = short THEN 1 ELSE MaxTTL))>>, 0),
                    i + 1, k, short)

ChainStore(be, k, end, short, attl) ==
    LET st == ChainLinks(be, [key \in ChainKeys |-> <<>>], 0, k, short)
    IN  IF end = "A"
        THEN SetRRs(be, st, ChainName(k), TypeA,
                    <<ChainItem(RRec(ChainName(k), TypeA, "ip_cn", attl))>>, 0)
        ELSE IF end = "cycle"
        THEN SetRRs(be, st, ChainName(k), TypeCNAME,
                    <<ChainItem(RRec(ChainName(k), TypeCNAME, ChainName(0), MaxTTL))>>, 0)
        ELSE st

InitChain ==
    /\ RouterUnused
    /\ backend \in WiredBackends
    /\ \E k \in 0..(maxDepth + 1), end \in ChainEnds, short \in {0, 1, maxDepth},
          attl \in {1, MaxTTL} :
           store = ChainStore(backend, k, end, short, attl)
    /\ now = 0
    /\ getRes = NoGet
    /\ walk = NoWalk
    /\ vIn = NoValidation
    /\ vOut = NoVerdict
    /\ gq = NoGroupQuery
    /\ pipe = NoPipe
    /\ sel = NoSel
    /\ udp = NoUDP
    /\ load = NoLoad
    /\ vcfg = NoValidate
    /\ cresp = NoCacheResp
    /\ gcalls = NoCalls
    /\ glog = NoLog
    /\ srv = NoServe
    /\ flight = NoFlight
    /\ mem = NoMem

NextChain ==
    \/ ResolveBegin(ChainName(0))
    \/ ResolveWalk
    \/ Tick

SpecChain == InitChain /\ [][NextChain]_vars

\* cache.GetRRs(name, type) reports a hit at this instant.
Cached(name, type) == GetRRs(backend, store, name, type, now).hit

CachedItems(name, type) == GetRRs(backend, store, name, type, now).items

RRKey(rr) == <<rr.name, rr.type, rr.data>>

RRKeys(rrs) == [i \in DOMAIN rrs |-> RRKey(rrs[i])]

ItemKeys(items) == [i \in DOMAIN items |-> RRKey(items[i].rr)]

\* The name the CNAME records cached at one name point to.
CNAMETarget(items) == Fqdn(items[Len(items)].rr.data)

\* The name reached from qname by following cached CNAME records for at
\* most fuel links, with the records traversed; found tells whether a
\* record of qtype is cached at that name.
RECURSIVE Follow(_, _, _, _)
Follow(name, qtype, fuel, traversed) ==
    IF fuel = 0
    THEN [name |-> name, traversed |-> traversed, found |-> FALSE, links |-> fuel]
    ELSE IF Cached(name, qtype)
    THEN [name |-> name, traversed |-> traversed, found |-> TRUE, links |-> fuel]
    ELSE IF ~Cached(name, TypeCNAME)
    THEN [name |-> name, traversed |-> traversed, found |-> FALSE, links |-> fuel]
    ELSE Follow(CNAMETarget(CachedItems(name, TypeCNAME)), qtype, fuel - 1,
                traversed \o ItemKeys(CachedItems(name, TypeCNAME)))

WalkDone == walk.pc = "done"

\* C27 as stated: the walk reports a full hit exactly when a record of
\* qtype is cached at the name the cached CNAME records lead to.
ChainHitIffCached ==
    WalkDone =>
        (~walk.needUpstream <=>
            Follow(walk.qname, TypeA, Len(ChainLabels) + 1, <<>>).found)

\* C27: the walk reports a full hit exactly when a record of qtype is cached
\* at a name reached from qname over fewer than maxDepth cached CNAME
\* records, and then returns the records traversed followed by that record;
\* otherwise it asks for the upstream with the last name reached as pivot
\* and the CNAME records traversed, in order, as collected.
ChainHitIffCachedInDepth ==
    WalkDone =>
        LET f == Follow(walk.qname, TypeA, maxDepth, <<>>)
        IN  /\ ~walk.needUpstream <=> f.found
            /\ f.found =>
                   /\ walk.target = <<"">>
                   /\ RRKeys(walk.answers) =
                          f.traversed \o ItemKeys(CachedItems(f.name, TypeA))
            /\ ~f.found =>
                   /\ walk.target = f.name
                   /\ RRKeys(walk.answers) = f.traversed

\* A walk over three cached links that ends at a name with nothing cached.
ChainPartialWalk ==
    /\ WalkDone
    /\ walk.needUpstream
    /\ Len(walk.answers) = 3
    /\ walk.target = ChainName(3)

\* A record of qtype is cached behind maxDepth links and the walk asks for
\* the upstream.
ChainHitBeyondDepth ==
    /\ WalkDone
    /\ walk.needUpstream
    /\ walk.target = ChainName(maxDepth)
    /\ Cached(ChainName(maxDepth), TypeA)

\* C28: the walk enters its loop at most maxDepth times whatever the cache
\* holds, a cycle of CNAME records included, and when the depth is used up
\* it asks for the upstream with the records collected and the current
\* name.
ChainDepthBounded ==
    WalkDone =>
        LET f == Follow(walk.qname, TypeA, maxDepth, <<>>)
        IN  /\ walk.iters <= maxDepth
            /\ f.links = 0 =>
                   /\ walk.iters = maxDepth
                   /\ walk.needUpstream
                   /\ walk.target = f.name
                   /\ RRKeys(walk.answers) = f.traversed
                   /\ Len(walk.answers) = maxDepth

\* A walk around a cached cycle h0 -> h1 -> h0 that used up the depth.
ChainCycleWalked ==
    /\ WalkDone
    /\ walk.iters = maxDepth
    /\ Len(walk.answers) = maxDepth
    /\ walk.answers[1].data = ChainName(1)
    /\ walk.answers[2].data = ChainName(0)
    /\ walk.answers[3].data = ChainName(1)
    /\ walk.target = ChainName(0)

(***************************************************************************)
(* Write specification: SetRRs calls on one key, one after the other, on   *)
(* each of the three backends.  The outcome of a call does not depend on   *)
(* the clock beyond the one reading at its entry, so the clock stands      *)
(* still; no other caller touches the key.                                 *)
(***************************************************************************)
AllBackends == {"memory", "redis", "redis_v2"}

InitSet ==
    /\ RouterUnused
    /\ backend \in AllBackends
    /\ store = EmptyStore
    /\ now = 0
    /\ getRes = NoGet
    /\ walk = NoWalk
    /\ vIn = NoValidation
    /\ vOut = NoVerdict
    /\ gq = NoGroupQuery
    /\ pipe = NoPipe
    /\ sel = NoSel
    /\ udp = NoUDP
    /\ load = NoLoad
    /\ vcfg = NoValidate
    /\ cresp = NoCacheResp
    /\ gcalls = NoCalls
    /\ glog = NoLog
    /\ srv = NoServe
    /\ flight = NoFlight
    /\ mem = NoMem

\* The item lists of the pipeline specification, and lists with a record
\* whose TTL is above maxTTL.
SetItemLists ==
    LET It(ip, ttl) == MkItem(RRec(NA, TypeA, ip, ttl), ttl, 0, RcodeSuccess)
    IN  PipeItemLists \cup
        {<<It("ip_cn", MaxTTL + 1)>>, <<It("ip_cn", 1), It("ip_us", MaxTTL + 2)>>}

\* The key SetSingleRR writes: MemoryDNSCacheV2 takes the owner name of the
\* record as it is, the Redis caches pass it to SetRRs.
SingleRRKey(be, item) ==
    IF be = "memory" THEN <<item.rr.name, item.rr.type>>
    ELSE CacheKey(item.rr.name, item.rr.type)

\* SetSingleRR(item): the one-item list is written under the record's key.
PipeSetSingle(item) ==
    /\ ~pipe.busy
    /\ pipe' = [busy |-> TRUE, key |-> SingleRRKey(backend, item), items |-> <<item>>,
                cmds |-> PipeCommands(backend, <<item>>, now),
                pre |-> store[SingleRRKey(backend, item)],
                post |-> SetRRs(backend, store, item.rr.name, item.rr.type, <<item>>,
                                now)[SingleRRKey(backend, item)]]
    /\ getRes' = NoGet
    /\ UNCHANGED <<backend, store, now, walk, vIn, vOut, gq, sel, udp, load, vcfg, cresp, gcalls, glog, srv, flight, mem, routeVars>>

NextSet ==
    \/ \E items \in SetItemLists : PipeSet(NA, TypeA, items)
    \/ \E items \in SetItemLists : PipeSetSingle(items[1])
    \/ PipeExec

SpecSet == InitSet /\ [][NextSet]_vars

\* What identifies an item: its record and the rcode of its response.
ItemIds(items) == {<<RRKey(items[i].rr), items[i].rcode>> : i \in 1..Len(items)}

SetCompleted == ~pipe.busy /\ pipe.items # <<>>

\* C29: once SetRRs with a non-empty item list has returned, the key holds
\* exactly the items of that call and none of those stored before, on every
\* backend.
SetReplacesKey ==
    SetCompleted =>
        ItemIds(StoredItems(backend, store, pipe.key)) = ItemIds(pipe.items)

\* C30: every item the cache holds has an original TTL of at most maxTTL,
\* whatever TTL the record carried and whether SetRRs or SetSingleRR wrote
\* it.
StoredTTLWithinMax ==
    \A key \in Keys :
        LET items == StoredItems(backend, store, key)
        IN  \A i \in 1..Len(items) : items[i].origTTL <= MaxTTL

\* SetSingleRR has stored a record that arrived with a TTL above maxTTL.
ClampedSingleStored ==
    /\ SetCompleted
    /\ Len(pipe.items) = 1
    /\ pipe.items[1].origTTL > MaxTTL
    /\ LET items == StoredItems(backend, store, pipe.key)
       IN  \E i \in 1..Len(items) :
               /\ items[i].rr.ttl > MaxTTL
               /\ items[i].origTTL = MaxTTL

(***************************************************************************)
(* Reply caching specification: Router.cacheResponse called with replies   *)
(* that carry all three sections, one call after the other on the caches   *)
(* main.go wires.  The first call finds the cache empty, the later ones    *)
(* find what the earlier ones stored.  The clock stands still: the items   *)
(* are stamped with one reading of it and nothing here waits.              *)
(***************************************************************************)
Reply(rcode, answer, ns, extra) ==
    [nil |-> FALSE, rcode |-> rcode, answer |-> answer, qid |-> 0, ns |-> ns, extra |-> extra]

\* Answer sections: one address, two addresses of one owner, a CNAME with
\* the address of its target, the same address twice.
ReplyAnswers ==
    {<<RRec(NA, TypeA, "ip_cn", 1)>>,
     <<RRec(NA, TypeA, "ip_us", 1)>>,
     <<RRec(NA, TypeA, "ip_cn", 1), RRec(NA, TypeA, "ip_us", 1)>>,
     <<RRec(NA, TypeA, "ip_us", 1), RRec(NA, TypeA, "ip_us", 1)>>,
     <<RRec(NA, TypeCNAME, NB, 1), RRec(NB, TypeA, "ip_cn", 1)>>,
     <<RRec(NB, TypeA, "ip_us", MaxTTL + 1)>>}

\* Authority and Additional records, of owners and types the cache could
\* hold: the delegation of c.t. with the address of its target, and a record
\* of the owner the Answer is about.
ReplySections ==
    {[ns |-> <<>>, extra |-> <<>>],
     [ns |-> <<RRec(NC, TypeCNAME, NB, 1)>>, extra |-> <<RRec(NC, TypeA, "ip_us", 1)>>],
     [ns |-> <<RRec(NA, TypeA, "ip_priv", 1)>>, extra |-> <<RRec(NB, TypeA, "ip_priv", 1)>>]}

\* The replies cached: answers with NOERROR, and NXDOMAIN or NOERROR with
\* an empty Answer.
Replies ==
    {Reply(RcodeSuccess, a, s.ns, s.extra) : a \in ReplyAnswers, s \in ReplySections} \cup
    {Reply(rc, <<>>, s.ns, s.extra) : rc \in {RcodeSuccess, RcodeNameError},
                                      s \in ReplySections}

InitCacheResp ==
    /\ RouterUnused
    /\ backend \in WiredBackends
    /\ store = EmptyStore
    /\ now = 0
    /\ getRes = NoGet
    /\ walk = NoWalk
    /\ vIn = NoValidation
    /\ vOut = NoVerdict
    /\ gq = NoGroupQuery
    /\ pipe = NoPipe
    /\ sel = NoSel
    /\ udp = NoUDP
    /\ load = NoLoad
    /\ vcfg = NoValidate
    /\ cresp = NoCacheResp
    /\ gcalls = NoCalls
    /\ glog = NoLog
    /\ srv = NoServe
    /\ flight = NoFlight
    /\ mem = NoMem

\* r.cacheResponse(ctx, domain, resp, 0), as Route calls it.
CacheResponse(resp) ==
    /\ cresp.calls < MaxRoutes
    /\ store' = cacheResponse(backend, store, resp, 0, now)
    /\ cresp' = [calls |-> cresp.calls + 1, pre |-> store, resp |-> resp]
    /\ UNCHANGED <<backend, now, getRes, walk, vIn, vOut, gq, pipe, sel, udp, load, vcfg, gcalls, glog, srv, flight, mem,
                   routeVars>>

NextCacheResp == \E resp \in Replies : CacheResponse(resp)

SpecCacheResp == InitCacheResp /\ [][NextCacheResp]_vars

\* The records of a section that belong under a cache key.
SectionRRs(section, k) ==
    {RRKey(section[i]) : i \in {j \in 1..Len(section) :
                                    CacheKey(section[j].name, section[j].type) = k}}

StoredRRs(k) ==
    LET items == StoredItems(backend, store, k)
    IN  {RRKey(items[i].rr) : i \in 1..Len(items)}

\* Keys other than those of the Answer are as they were.
CacheResponseFrame ==
    \A k \in Keys :
        SectionRRs(cresp.resp.answer, k) = {} => store[k] = cresp.pre[k]

\* C31: after cacheResponse(resp), every key of an Answer record holds
\* exactly the Answer records of that owner and type, every other key is as
\* it was (nothing of Authority and Additional is stored, and an empty
\* Answer changes nothing).
CacheResponseExact ==
    cresp.calls > 0 =>
        /\ CacheResponseFrame
        /\ \A k \in Keys :
               SectionRRs(cresp.resp.answer, k) # {} =>
                   StoredRRs(k) = SectionRRs(cresp.resp.answer, k)

(***************************************************************************)
(* Idle cache specification: the MemoryDNSCacheV2 main.go builds, written  *)
(* and read by callers that need not come back, while the clock advances.  *)
(* NewMemoryDNSCacheV2 allocates the map and returns: it starts no         *)
(* goroutine, and no method of the type walks the map, so the steps are    *)
(* the callers' GetRRs and SetRRs and the clock.  Only the clock is certain *)
(* to move on (weak fairness on Tick); no caller is obliged to call again. *)
(***************************************************************************)
IdleItemLists ==
    LET It(ip, ttl) == MkItem(RRec(NA, TypeA, ip, ttl), ttl, 0, RcodeSuccess)
    IN  {<<It("ip_cn", 1)>>, <<It("ip_us", MaxTTL)>>, <<It("ip_cn", 1), It("ip_us", MaxTTL)>>}

InitIdle == InitUDP

NextIdle ==
    \/ \E items \in IdleItemLists : CacheSet(NA, TypeA, items)
    \/ \E t \in {TypeA, TypeCNAME} : CacheGet(NA, t)
    \/ Tick

SpecIdle == InitIdle /\ [][NextIdle]_vars /\ WF_vars(Tick)

\* The key is in the map and every item under it is expired.
KeyExpired(k) ==
    /\ store[k] # <<>>
    /\ \A i \in 1..Len(store[k]) : IsExpired(store[k][i], now)

\* C32: a key of the in-process cache whose every item has expired does not
\* stay in the map: it is eventually removed (or written anew), whether or
\* not a GetRRs for the key is issued again.
ExpiredKeyRemoved == \A k \in Keys : KeyExpired(k) ~> ~KeyExpired(k)

(***************************************************************************)
(* Worker specification: Group.Query calls running side by side on one     *)
(* group, each with its own queryCtx, resChan and goroutines (all locals   *)
(* of the call), and the logger they share.  The first call has up to      *)
(* MaxUpstreams workers, the other call one worker.  A caller may cancel   *)
(* the context it passed while the loop waits.                             *)
(***************************************************************************)
\* resChan := make(chan result, len(g.upstreams)), variant: unbuffered.
ChanCapUnbuffered(plan) == 0

ChanCap(plan) == Len(plan)

\* select: case <-ctx.Done(): cancel(), Debug, return "query timed out".
QueryCtxDone(g) ==
    [g EXCEPT !.cancelled = TRUE, !.pc = "done", !.err = <<"query timed out">>]

WorkerOutcomes(w) == {ExchangeErr(w), ExchangeReply(RcodeSuccess, <<SameRecord>>)}

WorkerPlans(c) ==
    LET sizes == IF c = 1 THEN 1..MaxUpstreams ELSE {1}
    IN  UNION {{plan \in [1..n -> UNION {WorkerOutcomes(w) : w \in 1..n}] :
                    \A w \in 1..n : plan[w] \in WorkerOutcomes(w)} : n \in sizes}

\* What Query writes to the logger when its loop ends: LogUpstreamResponse
\* with the nameserver of the reply, or the Debug line of the failure.
LoopEvents(c, g) ==
    IF g.pc # "done" THEN <<>>
    ELSE IF ~g.reply.nil
    THEN <<[call |-> c, event |-> "upstream_response",
            nameserver |-> g.recv[Len(g.recv)].nameserver]>>
    ELSE <<[call |-> c, event |-> "query_failed", nameserver |-> 0]>>

InitWorkers == InitUDP

WorkersUnchanged ==
    UNCHANGED <<backend, store, now, getRes, walk, vIn, vOut, gq, pipe, sel, udp, load, vcfg,
                cresp, srv, flight, mem, routeVars>>

WorkersQuery(c, plan) ==
    /\ gcalls[c].pc = "idle"
    /\ gcalls' = [gcalls EXCEPT ![c] = GroupQueryEntry(plan)]
    /\ glog' = glog
    /\ WorkersUnchanged

WorkersCheck(c, w) ==
    /\ w \in DOMAIN gcalls[c].ws
    /\ gcalls[c].ws[w] = "exchange"
    /\ gcalls' = [gcalls EXCEPT ![c] = WorkerCheck(gcalls[c], w)]
    /\ glog' = glog
    /\ WorkersUnchanged

\* A send on a full channel blocks.
WorkersSend(c, w) ==
    /\ w \in DOMAIN gcalls[c].ws
    /\ gcalls[c].ws[w] = "send"
    /\ Len(gcalls[c].resChan) < ChanCap(gcalls[c].plan)
    /\ gcalls' = [gcalls EXCEPT ![c] = WorkerSend(gcalls[c], w)]
    /\ glog' = glog
    /\ WorkersUnchanged

WorkersRecv(c) ==
    /\ gcalls[c].pc = "wait"
    /\ gcalls[c].resChan # <<>>
    /\ gcalls' = [gcalls EXCEPT ![c] = QueryLoop(gcalls[c])]
    /\ glog' = glog \o LoopEvents(c, QueryLoop(gcalls[c]))
    /\ WorkersUnchanged

WorkersCtxDone(c) ==
    /\ gcalls[c].pc = "wait"
    /\ gcalls' = [gcalls EXCEPT ![c] = QueryCtxDone(gcalls[c])]
    /\ glog' = glog \o LoopEvents(c, QueryCtxDone(gcalls[c]))
    /\ WorkersUnchanged

WorkerStep ==
    \E c \in QueryCalls, w \in 1..MaxUpstreams : WorkersCheck(c, w) \/ WorkersSend(c, w)

LoopStep == \E c \in QueryCalls : WorkersRecv(c)

NextWorkers ==
    \/ \E c \in QueryCalls : \E plan \in WorkerPlans(c) : WorkersQuery(c, plan)
    \/ \E c \in QueryCalls, w \in 1..MaxUpstreams : WorkersCheck(c, w)
    \/ \E c \in QueryCalls, w \in 1..MaxUpstreams : WorkersSend(c, w)
    \/ \E c \in QueryCalls : WorkersRecv(c)
    \/ \E c \in QueryCalls : WorkersCtxDone(c)

SpecWorkers == InitWorkers /\ [][NextWorkers]_vars

\* The call has returned the reply of a worker (and cancelled queryCtx).
Won(c) == gcalls[c].pc = "done" /\ ~gcalls[c].reply.nil

Outcome(c) == <<gcalls[c].pc, gcalls[c].reply, gcalls[c].err, gcalls[c].recv>>

\* C33: once a Query call has returned a worker's reply and cancelled
\* queryCtx, a step of one of its other workers writes nothing to the logger
\* and changes the outcome of no Query call, and a worker whose exchange
\* returns only then sends nothing.
SupersededWorkerSilent ==
    [][\A c \in QueryCalls :
           (Won(c) /\ gcalls'[c].ws # gcalls[c].ws) =>
               /\ glog' = glog
               /\ \A d \in QueryCalls : gcalls[d].pc = "done" => Outcome(d)' = Outcome(d)
               /\ \A w \in DOMAIN gcalls[c].ws :
                      gcalls[c].ws[w] = "exchange" =>
                          /\ gcalls'[c].ws[w] \in {"exchange", "quit"}
                          /\ gcalls'[c].ws[w] = "quit" =>
                                 gcalls'[c].resChan = gcalls[c].resChan]_vars

\* Both calls have returned a reply; in the first a worker found queryCtx
\* cancelled when its exchange returned, and the log holds the two
\* responses only.
SupersededWorkerQuit ==
    /\ \A c \in QueryCalls : Won(c)
    /\ \E w \in DOMAIN gcalls[1].ws : gcalls[1].ws[w] = "quit" /\ Succeeds(gcalls[1].plan[w])
    /\ Len(glog) = 2

(***************************************************************************)
(* Termination of Group.Query and its goroutines.  An exchange returns     *)
(* (every upstream has a timeout), a goroutine that can send does, and the *)
(* loop takes a result that is in the channel: weak fairness on the steps  *)
(* of the goroutines and of the loop.  Nothing obliges a caller to call or *)
(* to cancel.                                                              *)
(***************************************************************************)
SpecWorkersLive ==
    InitWorkers /\ [][NextWorkers]_vars /\ WF_vars(WorkerStep) /\ WF_vars(LoopStep)

Entered(c) == gcalls[c].pc # "idle"

\* Every goroutine of the call has returned, having sent or skipped.
WorkersGone(c) ==
    /\ gcalls[c].pc = "done"
    /\ \A w \in DOMAIN gcalls[c].ws : gcalls[c].ws[w] \in {"sent", "quit"}

\* C39: the results in a call's channel never exceed its capacity, the
\* loop receives at most one result per worker, and every call that was
\* entered returns and all its goroutines end, whether the call returned a
\* reply, the all-failed error or on cancellation of the caller's context.
NoWorkerLeftBlocked ==
    /\ [](\A c \in QueryCalls :
             /\ Len(gcalls[c].resChan) <= ChanCap(gcalls[c].plan)
             /\ Len(gcalls[c].recv) <= Len(gcalls[c].plan)
             /\ \A i, j \in 1..Len(gcalls[c].recv) :
                    gcalls[c].recv[i].nameserver = gcalls[c].recv[j].nameserver => i = j)
    /\ \A c \in QueryCalls : Entered(c) ~> WorkersGone(c)

\* The first call returned a reply, and a worker that had passed the check
\* before the cancellation has left its result in the channel, where nobody
\* receives it; the other call returned on cancellation and its worker's
\* result is in the channel as well.
UnreceivedResultsLeft ==
    /\ Won(1)
    /\ WorkersGone(1)
    /\ gcalls[1].resChan # <<>>
    /\ gcalls[2].err = <<"query timed out">>
    /\ WorkersGone(2)
    /\ gcalls[2].resChan # <<>>

(***************************************************************************)
(* Listener specification: Server.handleQuery on one request, from the     *)
(* parsed message to the message handed to WriteMsg.  Route is taken by    *)
(* its outcome: an error, or a reply with an rcode and the three sections. *)
(* Every record of a reply packs to the same size.                         *)
(***************************************************************************)
RcodeServerFailure == 2

RequestIds == {1, 2}

\* The parsed request: its ID, whether it carries a question, how it came
\* in and the UDP size it advertises.
Requests ==
    [id : RequestIds, hasQuestion : BOOLEAN, isUDP : BOOLEAN, advertised : {0, 4096}]

\* What Route returns: replies with an Answer, NXDOMAIN as a block policy
\* builds it and as an upstream sends it (with the CNAME in front), an empty
\* NOERROR, or an error.  qid 0 is the ID Route's reply carries.
RouteReplies ==
    {Reply(RcodeSuccess, <<RRec(NA, TypeA, "ip_cn", 1)>>, <<>>, <<>>),
     Reply(RcodeSuccess, <<RRec(NA, TypeA, "ip_cn", 1), RRec(NA, TypeA, "ip_us", 1)>>,
           <<RRec(NC, TypeA, "ip_us", 1)>>, <<RRec(NC, TypeA, "ip_us", 1)>>),
     Reply(RcodeSuccess, <<>>, <<>>, <<>>),
     Reply(RcodeNameError, <<>>, <<>>, <<>>),
     Reply(RcodeNameError, <<RRec(NA, TypeCNAME, NB, 1)>>, <<RRec(NC, TypeA, "ip_us", 1)>>, <<>>)}

RouteOutcomes ==
    {[resp |-> r, err |-> ""] : r \in RouteReplies} \cup
    {[resp |-> NilMsg, err |-> "route failed"]}

\* Variant: SetReply leaves the rcode of the message alone.
SetReplyKeepsRcode(msg, req) == [msg EXCEPT !.qid = req.id]

\* dns.Msg.SetReply(request): the message takes the ID, opcode, RD and CD
\* bits and question of the request, becomes a response, and its rcode is
\* set to RcodeSuccess.
SetReply(msg, req) == [msg EXCEPT !.qid = req.id, !.rcode = RcodeSuccess]

\* The loops of ensureUDPSize, run to their end.
RECURSIVE TrimLoops(_)
TrimLoops(u) ==
    IF u.pc = "extra" THEN TrimLoops(TrimExtra(u))
    ELSE IF u.pc = "ns" THEN TrimLoops(TrimNs(u))
    ELSE IF u.pc = "answer" THEN TrimLoops(TrimAnswer(u))
    ELSE u

\* ensureUDPSize(resp, r, w) on a reply whose records pack to size bytes
\* each.
ensureUDPSize(resp, req, fixed, size) ==
    LET Sizes(section) == [i \in DOMAIN section |-> size]
        u == TrimLoops(EnsureEntry(req.isUDP, req.advertised, fixed,
                                   [answer |-> Sizes(resp.answer), ns |-> Sizes(resp.ns),
                                    extra |-> Sizes(resp.extra)]))
    IN  [resp EXCEPT !.answer = SubSeq(resp.answer, 1, Len(u.answer)),
                     !.ns = SubSeq(resp.ns, 1, Len(u.ns)),
                     !.extra = SubSeq(resp.extra, 1, Len(u.extra))]
            @@ [truncated |-> u.truncated]

\* The message handleQuery hands to WriteMsg.
handleQueryWrites(req, routed, fixed, size) ==
    IF routed.err # ""
    THEN [SetReply(Reply(RcodeSuccess, <<>>, <<>>, <<>>), req)
              EXCEPT !.rcode = RcodeServerFailure] @@ [truncated |-> FALSE]
    ELSE ensureUDPSize([SetReply(routed.resp, req) EXCEPT !.qid = req.id], req, fixed, size)

InitServe == InitUDP

\* The listener serves one request after the other.
HandleQuery(req, routed, fixed, size) ==
    /\ srv.served < MaxRoutes
    /\ srv' = IF ~req.hasQuestion
              THEN [NoServe EXCEPT !.done = TRUE, !.served = srv.served + 1, !.req = req]
              ELSE [done |-> TRUE, served |-> srv.served + 1, req |-> req, routed |-> routed,
                    size |-> size, wrote |-> TRUE,
                    written |-> handleQueryWrites(req, routed, fixed, size)]
    /\ UNCHANGED <<backend, store, now, getRes, walk, vIn, vOut, gq, pipe, sel, udp, load, vcfg,
                   cresp, gcalls, glog, flight, mem, routeVars>>

NextServe ==
    \E req \in Requests, routed \in RouteOutcomes, fixed \in FixedLens, size \in RRSizes :
        HandleQuery(req, routed, fixed, size)

SpecServe == InitServe /\ [][NextServe]_vars

RoutedReply == srv.done /\ srv.wrote /\ srv.routed.err = ""

\* The Answer written is the Answer Route returned, cut short at its end
\* when the reply was truncated for UDP.
AnswerAsRouted ==
    IF srv.written.truncated
    THEN IsPrefix(srv.written.answer, srv.routed.resp.answer)
    ELSE srv.written.answer = srv.routed.resp.answer

\* C34: the reply written to the client has the rcode and the Answer of the
\* reply Route returned, apart from UDP truncation.
ReplyAsRouted ==
    RoutedReply =>
        /\ srv.written.rcode = srv.routed.resp.rcode
        /\ AnswerAsRouted

(***************************************************************************)
(* Lock specification: MemoryDNSCacheV2 with two goroutines in GetRRs and  *)
(* one in SetRRs on the same key.  GetRRs reads the list under the read    *)
(* lock, releases it, filters the list it read against the clock, and      *)
(* takes the write lock only to delete the key or to store the filtered    *)
(* list; SetRRs runs under the write lock from start to end.  Steps of     *)
(* other goroutines fall between the two critical sections of a GetRRs.    *)
(***************************************************************************)
\* c.mu.RLock(); items, exists := c.storage[key]; c.mu.RUnlock()
MemGetRead(st, key) == [seen |-> st[key], exists |-> st[key] # <<>>]

\* Variant: the filtered list is returned and the map is left alone.
MemGetWriteNothing(st, key, seen, t) ==
    LET NotExpired(i) == ~IsExpired(i, t)
        validItems == SelectSeq(seen, NotExpired)
    IN  [items |-> validItems, hit |-> validItems # <<>>, store |-> st]

\* now := time.Now().UTC(), the filter loop, and the write under c.mu.Lock().
MemGetWrite(st, key, seen, t) ==
    LET NotExpired(i) == ~IsExpired(i, t)
        validItems == SelectSeq(seen, NotExpired)
    IN  IF validItems = <<>>
        THEN [items |-> <<>>, hit |-> FALSE, store |-> [st EXCEPT ![key] = <<>>]]
        ELSE IF Len(validItems) < Len(seen)
        THEN [items |-> validItems, hit |-> TRUE, store |-> [st EXCEPT ![key] = validItems]]
        ELSE [items |-> validItems, hit |-> TRUE, store |-> st]

LockKey == CacheKey(NA, TypeA)

InitLock == InitUDP

LockUnchanged ==
    UNCHANGED <<backend, getRes, walk, vIn, vOut, gq, pipe, sel, udp, load, vcfg, cresp, gcalls,
                glog, srv, flight, routeVars>>

\* SetRRs(a.t., A, items): no GetRRs that began earlier counts as begun
\* after this call.
LockSet(items) ==
    /\ store' = MemSetRRs(store, NA, TypeA, items, now)
    /\ mem' = [gets |-> [g \in Getters |-> [mem.gets[g] EXCEPT !.fresh = FALSE]],
               lastSet |-> MemSetRRs(store, NA, TypeA, items, now)[LockKey]]
    /\ now' = now
    /\ LockUnchanged

\* GetRRs up to the release of the read lock; a key that is not in the map
\* is a miss at once.
LockGetRead(g) ==
    /\ mem.gets[g].pc \in {"idle", "done"}
    /\ LET r == MemGetRead(store, LockKey)
       IN  mem' = [mem EXCEPT !.gets[g] =
                       [pc |-> IF r.exists THEN "read" ELSE "done", seen |-> r.seen,
                        fresh |-> mem.lastSet # <<>>, at |-> now, hit |-> FALSE,
                        items |-> <<>>]]
    /\ UNCHANGED <<store, now>>
    /\ LockUnchanged

\* The rest of GetRRs.
LockGetWrite(g) ==
    /\ mem.gets[g].pc = "read"
    /\ LET r == MemGetWrite(store, LockKey, mem.gets[g].seen, now)
       IN  /\ store' = r.store
           /\ mem' = [mem EXCEPT !.gets[g] =
                          [@ EXCEPT !.pc = "done", !.at = now, !.hit = r.hit,
                                    !.items = r.items]]
    /\ now' = now
    /\ LockUnchanged

LockTick ==
    /\ now < MaxTime
    /\ now' = now + 1
    /\ UNCHANGED <<store, mem>>
    /\ LockUnchanged

NextLock ==
    \/ \E items \in IdleItemLists : LockSet(items)
    \/ \E g \in Getters : LockGetRead(g)
    \/ \E g \in Getters : LockGetWrite(g)
    \/ LockTick

SpecLock == InitLock /\ [][NextLock]_vars

\* The GetRRs call of g began after the last SetRRs returned and has
\* returned, and at its reading of the clock no item of that SetRRs was
\* expired.
GotAfterSet(g) ==
    /\ mem.gets[g].pc = "done"
    /\ mem.gets[g].fresh
    /\ \A i \in 1..Len(mem.lastSet) : ~IsExpired(mem.lastSet[i], mem.gets[g].at)

\* C35: a GetRRs(k) begun after SetRRs(k, items) returned, with no later
\* write to k and before the items expire, returns exactly those items,
\* whatever other GetRRs(k) calls are in flight.
GetReturnsLastSet ==
    \A g \in Getters :
        GotAfterSet(g) => mem.gets[g].hit /\ mem.gets[g].items = mem.lastSet

(***************************************************************************)
(* Life of a re-cached record                                              *)
(***************************************************************************)
\* The instant from which IsExpired holds.
Expiry(item) == item.storedAt + item.origTTL * TicksPerSecond

\* The expiry instants of the items stored under key for the record rr.
StoredExpiries(st, key, rr) ==
    LET items == StoredItems(backend, st, key)
    IN  {Expiry(items[j]) : j \in {j \in 1..Len(items) : RRKey(items[j].rr) = RRKey(rr)}}

\* The record is one of the CNAME records the call took from the cache.
TakenFromCache(rr) ==
    /\ rr.type = TypeCNAME
    /\ \E a \in 1..Len(rt.cachedAnswers) : rt.cachedAnswers[a] = rr

\* C36: when Route writes a CNAME record it took from the cache back with
\* the merged Answer, the item it stores (stamped with the instant of the
\* write, original TTL = the remaining TTL the record was given at the
\* start of the call) expires no later than the item the cache held for
\* that record.
ReCacheKeepsExpiry ==
    [][\A w \in wlog' \ wlog :
           \A i \in 1..Len(w.items) :
               TakenFromCache(w.items[i].rr) =>
                   \A e \in StoredExpiries(store, w.key, w.items[i].rr) :
                       w.at + ClampTTL(w.items[i].origTTL) * TicksPerSecond <= e]_vars

(***************************************************************************)
(* Single-flight specification: the listener that deduplicates questions,  *)
(* with two clients sending the same question and so the same key          *)
(* "domain:qtype".  singleflight.Group.Do runs the function for the first  *)
(* caller of a key, makes callers that arrive meanwhile wait, hands all of *)
(* them the one result, and forgets the key.  The result is a *dns.Msg:    *)
(* the handlers that shared a call hold the same message and write to it   *)
(* and read from it without synchronization.                               *)
(***************************************************************************)
FlightUnchanged ==
    UNCHANGED <<backend, store, now, getRes, walk, vIn, vOut, gq, pipe, sel, udp, load, vcfg,
                cresp, gcalls, glog, srv, mem, routeVars>>

InitFlight == InitUDP

\* s.singleflight.Do(key, fn): the first caller runs Route, a caller that
\* finds a call in flight waits for its result.
FlightDo(h) ==
    /\ flight.hs[h].pc = "idle"
    /\ flight' = [flight EXCEPT !.running = TRUE,
                                !.hs[h].pc = IF flight.running THEN "wait" ELSE "route"]
    /\ FlightUnchanged

\* Route returns to the caller that ran it; Do returns the same pointer
\* and error to that caller and to every waiting one.
FlightReturn(h, routed) ==
    /\ flight.hs[h].pc = "route"
    /\ LET ptr == Len(flight.msgs) + 1
           Got(k) == IF k = h \/ flight.hs[k].pc = "wait"
                     THEN [flight.hs[k] EXCEPT !.pc = "got", !.resp = ptr,
                                               !.err = routed.err]
                     ELSE flight.hs[k]
       IN  flight' = [running |-> FALSE, msgs |-> Append(flight.msgs, routed.resp),
                      hs |-> [k \in Handlers |-> Got(k)]]
    /\ FlightUnchanged

\* err != nil: a SERVFAIL built for this request is written.  Otherwise
\* resp.SetReply(r); resp.Id = r.Id on the message Do returned.
FlightSetReply(h) ==
    /\ flight.hs[h].pc = "got"
    /\ flight' =
           IF flight.hs[h].err # ""
           THEN [flight EXCEPT !.hs[h].pc = "written", !.hs[h].wrote = TRUE,
                    !.hs[h].written =
                        [SetReply(Reply(RcodeSuccess, <<>>, <<>>, <<>>), [id |-> h])
                             EXCEPT !.rcode = RcodeServerFailure]]
           ELSE [flight EXCEPT !.hs[h].pc = "set",
                    !.msgs[flight.hs[h].resp] =
                        SetReply(flight.msgs[flight.hs[h].resp], [id |-> h])]
    /\ FlightUnchanged

\* w.WriteMsg(resp) packs the message as it is at that moment.
FlightWrite(h) ==
    /\ flight.hs[h].pc = "set"
    /\ flight' = [flight EXCEPT !.hs[h].pc = "written", !.hs[h].wrote = TRUE,
                                !.hs[h].written = flight.msgs[flight.hs[h].resp]]
    /\ FlightUnchanged

NextFlight ==
    \/ \E h \in Handlers : FlightDo(h)
    \/ \E h \in Handlers : \E routed \in RouteOutcomes : FlightReturn(h, routed)
    \/ \E h \in Handlers : FlightSetReply(h)
    \/ \E h \in Handlers : FlightWrite(h)

SpecFlight == InitFlight /\ [][NextFlight]_vars

\* C37: every client receives a reply that carries the ID of its own
\* request.
OwnIdWritten ==
    \A h \in Handlers : flight.hs[h].wrote => flight.hs[h].written.qid = h

(***************************************************************************)
(* Order of the two results of the race                                    *)
(***************************************************************************)
OtherGroup(g) == IF g = "proxy_ecs" THEN "proxy" ELSE "proxy_ecs"

HeldResult(r, g) == IF g = "proxy_ecs" THEN r.proxyECSResp ELSE r.proxyResp

\* The bundle handleProxyECSFallbackV2 would be in had the result still
\* pending arrived first (as `late`) and the result already held after it.
SwappedOrder(late) ==
    LET second == CHOOSE g \in rt.pending : TRUE
        first == OtherGroup(second)
        r0 == [rt EXCEPT !.pending = {first, second}, !.i = 0,
                         !.proxyECSResp = NilMsg, !.proxyResp = NilMsg]
        b1 == EcsLoopStep([RBundle EXCEPT !.rt = EcsStoreResult(r0, second, late)],
                          backend, cfg, now)
    IN  EcsLoopStep([b1 EXCEPT !.rt = EcsStoreResult(b1.rt, first, HeldResult(rt, first))],
                    backend, cfg, now)

\* The second result is received and neither iteration was a timeout.
SecondResultStep ==
    /\ rt.pc = "ecs_wait"
    /\ rt.i = 1
    /\ ~rt.timedOut
    /\ Cardinality(rt.pending) = 1
    /\ rt'.i = 2
    /\ ~rt'.timedOut

\* C38: when both group queries of the race deliver before the deadline,
\* what the call goes on to (the reply or error returned or the direct
\* query sent), the cache after it, the SetRRs calls made and the category
\* learned are those the opposite order of arrival would have given.
EcsOrderIrrelevant ==
    [][SecondResultStep =>
           LET second == CHOOSE g \in rt.pending : TRUE
               b == SwappedOrder(HeldResult(rt', second))
           IN  /\ rt'.pc = b.rt.pc
               /\ rt'.reply = b.rt.reply
               /\ rt'.err = b.rt.err
               /\ rt'.path = b.rt.path
               /\ store' = b.store
               /\ wlog' = b.wlog
               /\ qlog' = b.qlog
               /\ learn' = b.learn]_vars

\* Both groups replied before the deadline with different Answers, the
\* proxy_ecs addresses gave no signal, and the proxy reply was returned,
\* cached and learned.
EcsBothReplied ==
    /\ rt.pc = "done"
    /\ rt.i = 2
    /\ ~rt.timedOut
    /\ ~rt.proxyECSResp.nil
    /\ ~rt.proxyResp.nil
    /\ rt.proxyECSResp.answer # rt.proxyResp.answer
    /\ rt.path = "ecs_proxy"
    /\ rt.reply = rt.proxyResp
    /\ wlog # {}
    /\ learn # {}

(***************************************************************************)
(* Error returns of handleProxyECSFallbackV2                               *)
(***************************************************************************)
InEcsFallback(r) == r.pc \in {"ecs_wait", "direct"}

EcsReplied(r) == r.pc = "done" /\ r.err = "" /\ ~r.reply.nil

\* C40: a learning task is started only by the step on which ecs-fallback
\* returns a reply, and for the query name; every other step of
\* ecs-fallback, the error returns among them, starts no learning task,
\* leaves the RR cache as it was and makes no SetRRs call.
EcsErrorLeavesNoTrace ==
    [][/\ \A task \in learn' \ learn :
              /\ InEcsFallback(rt)
              /\ EcsReplied(rt')
              /\ task.domain = rt.domain
       /\ (InEcsFallback(rt) /\ ~EcsReplied(rt')) =>
              /\ learn' = learn
              /\ store' = store
              /\ wlog' = wlog]_vars

\* The direct query failed after a proxy_ecs reply whose address matched
\* the direct_ip rules: the error is returned and nothing was learned or
\* cached.
EcsDirectFailed ==
    /\ rt.pc = "done"
    /\ rt.path = "ecs_direct_failed"
    /\ rt.err = "direct query failed"
    /\ ~rt.proxyECSResp.nil
    /\ learn = {}
    /\ wlog = {}

====
